---- MODULE Spec2Model ----
(***************************************************************************)
(* A model of quinn-proto's per-connection transport state machine         *)
(* (connection.rs) and of the endpoint calls that drive it (endpoint.rs).  *)
(*                                                                         *)
(* One connection is modelled.  `conn` holds the fields of `Connection`,   *)
(* `ctx` the fields of `Context` that the connection touches, `timers` the *)
(* driver's view of the three timers, `now` the driver's clock.  Every     *)
(* handler of the source is a pure operator on these records, and every    *)
(* endpoint call is one action.  Fields whose names start with h_ are      *)
(* history fields: they record what the handlers did and are never read by *)
(* the modelled code.  Operators that touch both the connection and the    *)
(* endpoint's Context work on a pair w = [c |-> connection, x |-> context].*)
(***************************************************************************)
EXTENDS Integers, Sequences, FiniteSets, TLC

VARIABLES conn, ctx, timers, now, ticks, calls, last

vars == <<conn, ctx, timers, now, ticks, calls, last>>

(***************************************************************************)
(* Bounds of the model.                                                    *)
(***************************************************************************)
\* Largest packet number the connection may allocate.
MaxTx == 7
\* Number of times the driver's clock may advance.
MaxTicks == 2
\* Largest number of events kept in the application event queue.
MaxEvents == 3
\* Number of calls into the endpoint, not counting poll and poll_io.
MaxCalls == 4
\* Largest number of operations kept in the I/O queue.
MaxIo == 4

(***************************************************************************)
(* Program constants.                                                      *)
(***************************************************************************)
\* u64::max_value(), as used for min_rtt, ssthresh and delay_until_lost.  The
\* model only compares against it; TLC's integers are 32 bits wide.
U64_MAX == 2147483647
MAX_ACK_BLOCKS == 64
MIN_MTU == 1232
MIN_INITIAL_SIZE == 1200
AEAD_TAG_SIZE == 16
ACK_DELAY_EXPONENT == 3
\* Microseconds per second of idle timeout (reset_idle_timeout).
IDLE_UNIT == 1000000

(***************************************************************************)
(* Generic helpers.                                                        *)
(***************************************************************************)
Max(a, b) == IF a >= b THEN a ELSE b

Min(a, b) == IF a <= b THEN a ELSE b

SetMax(S) == CHOOSE m \in S : \A k \in S : k <= m

SetMin(S) == CHOOSE m \in S : \A k \in S : m <= k

\* u64 saturating_sub
SatSub(a, b) == IF a >= b THEN a - b ELSE 0

RECURSIVE Pow2(_)
Pow2(n) == IF n <= 0 THEN 1 ELSE 2 * Pow2(n - 1)

\* The elements of a finite set of integers in ascending order.
RECURSIVE Ascending(_)
Ascending(S) ==
    IF S = {} THEN <<>> ELSE <<SetMin(S)>> \o Ascending(S \ {SetMin(S)})

\* The elements of S that order lists, in the order it lists them.
RECURSIVE Listed(_, _)
Listed(order, S) ==
    IF order = <<>> THEN <<>>
    ELSE (IF Head(order) \in S THEN <<Head(order)>> ELSE <<>>) \o Listed(Tail(order), S)

\* FnvHashSet::iter / drain: the elements of S in the iteration order of the
\* hash table.  order is that order as far as the caller fixed it; elements
\* it does not list follow in ascending order.
Iterate(order, S) == Listed(order, S) \o Ascending(S \ {order[i] : i \in DOMAIN order})

\* Every order the elements of S can be iterated in.
Orders(S) ==
    {s \in [1..Cardinality(S) -> S] : {s[i] : i \in 1..Cardinality(S)} = S}

\* A map with no keys.
EmptyMap == [n \in {} |-> 0]

\* Remove key k from function f.
Without(f, k) == [n \in DOMAIN f \ {k} |-> f[n]]

\* f with key k mapped to v (inserted or overwritten).
With(f, k, v) == [n \in DOMAIN f \cup {k} |-> IF n = k THEN v ELSE f[n]]

(***************************************************************************)
(* Configuration (endpoint.rs, struct Config).  The configuration is an    *)
(* input of the endpoint; it is fixed when the endpoint is built.  Window  *)
(* and timeout values are small so that every limit is met within the      *)
(* bounds.                                                                 *)
(***************************************************************************)
BaseConfig ==
    [ max_remote_bi_streams |-> 1,
      max_remote_uni_streams |-> 0,
      idle_timeout |-> 1,
      stream_receive_window |-> 4,
      receive_window |-> 6,
      accept_buffer |-> 1,
      max_tlps |-> 1,
      reordering_threshold |-> 1,
      time_reordering_fraction |-> 8192,
      using_time_loss_detection |-> FALSE,
      min_tlp_timeout |-> 2,
      min_rto_timeout |-> 4,
      default_initial_rtt |-> 2,
      default_mss |-> 1460,
      initial_window |-> 2 * 1460,
      minimum_window |-> 1460,
      loss_reduction_factor |-> 32768,
      \* not a field of Config: whether the build checks integer overflow
      \* (a Cargo profile setting; on in debug builds, off in release builds)
      overflow_checks |-> FALSE ]

\* The transport parameters the peer sends through TLS.
PeerParams ==
    [ initial_max_data |-> 4,
      initial_max_stream_data_bidi_local |-> 3,
      initial_max_stream_data_bidi_remote |-> 3,
      initial_max_stream_data_uni |-> 3,
      initial_max_bidi_streams |-> 1,
      initial_max_uni_streams |-> 0,
      idle_timeout |-> 1,
      ack_delay_exponent |-> 0,
      stateless_reset_token |-> TRUE ]

\* A client sends no stateless reset token.
ClientParams == [PeerParams EXCEPT !.stateless_reset_token = FALSE]

\* TransportParameters::new(&config): the local parameters a connection holds
\* until the peer's are installed.  No stateless reset token is known.
TransportParameters_new(config) ==
    [ initial_max_data |-> config.receive_window,
      initial_max_stream_data_bidi_local |-> config.stream_receive_window,
      initial_max_stream_data_bidi_remote |-> config.stream_receive_window,
      initial_max_stream_data_uni |-> config.stream_receive_window,
      initial_max_bidi_streams |-> config.max_remote_bi_streams,
      initial_max_uni_streams |-> config.max_remote_uni_streams,
      idle_timeout |-> config.idle_timeout,
      ack_delay_exponent |-> ACK_DELAY_EXPONENT,
      stateless_reset_token |-> FALSE ]

(***************************************************************************)
(* Stream identifiers and stream halves (stream.rs, lib.rs).               *)
(***************************************************************************)
\* StreamId::new: the low bit is the initiator (0 client, 1 server), the
\* second bit the directionality (0 bidirectional, 1 unidirectional).
StreamId_new(initiator, dir, index) ==
    index * 4 + (IF dir = "Uni" THEN 2 ELSE 0) + (IF initiator = "Server" THEN 1 ELSE 0)

initiator(id) == IF id % 2 = 1 THEN "Server" ELSE "Client"

directionality(id) == IF (id \div 2) % 2 = 1 THEN "Uni" ELSE "Bi"

index(id) == id \div 4

Other(side) == IF side = "Client" THEN "Server" ELSE "Client"

\* An absent send half / receive half.
NoSend ==
    [state |-> "Absent", offset |-> 0, max_data |-> 0, bytes_in_flight |-> 0,
     stop_reason |-> -1]

NoRecv ==
    [state |-> "Absent", size |-> -1, error_code |-> -1, recvd |-> {},
     asm |-> {}, max_data |-> 0, fresh |-> FALSE, read_off |-> 0]

\* stream::Send::new(): nothing sent, no credit granted yet.
Send_new ==
    [state |-> "Ready", offset |-> 0, max_data |-> 0, bytes_in_flight |-> 0,
     stop_reason |-> -1]

\* stream::Recv::new(window): size unknown, local grant = window.
Recv_new(window) ==
    [state |-> "Recv", size |-> -1, error_code |-> -1, recvd |-> {},
     asm |-> {}, max_data |-> window, fresh |-> TRUE, read_off |-> 0]

Stream_new_bi(window) == [send |-> Send_new, recv |-> Recv_new(window)]

Stream_send_only == [send |-> Send_new, recv |-> NoRecv]

Stream_recv_only(window) == [send |-> NoSend, recv |-> Recv_new(window)]

\* Recv::limit(): the high-water mark, one past the largest byte received.
Recv_limit(rs) == IF rs.recvd = {} THEN 0 ELSE SetMax(rs.recvd) + 1

\* Recv::final_offset(): known once a fin or a reset carried it; a Closed
\* half carries no size.
Recv_final_offset(rs) ==
    IF rs.state \in {"Recv", "DataRecvd", "ResetRecvd"} THEN rs.size ELSE -1

\* Recv::is_closed(): all data read by the application.
Recv_is_closed(rs) == rs.state = "Closed"

\* Recv::is_finished(): no more data expected from the peer.
Recv_is_finished(rs) == rs.state # "Recv"

\* Recv::receiving_unknown_size()
Recv_receiving_unknown_size(rs) == rs.state = "Recv" /\ rs.size = -1

\* SendState::was_reset()
Send_was_reset(ss) == ss.state \in {"ResetSent", "ResetRecvd"}

\* Send::is_closed(): the peer has everything, or has the reset.
Send_is_closed(ss) == ss.state \in {"DataRecvd", "ResetRecvd"}

\* Stream::is_closed(): every half the stream has is terminal.
Stream_is_closed(st) ==
    /\ (st.send.state = "Absent" \/ Send_is_closed(st.send))
    /\ (st.recv.state = "Absent" \/ Recv_is_closed(st.recv))

\* The bytes the assembler can hand out in order: the contiguous run of
\* buffered bytes (asm) that starts at the read offset.
RECURSIVE Readable(_, _)
Readable(rs, from) ==
    IF from \in rs.asm THEN 1 + Readable(rs, from + 1) ELSE 0

\* Assembler::insert followed by Assembler::read into a large buffer: the
\* half after the read, and the number of bytes handed out.
Assembler_insert(rs, offset, len) ==
    [rs EXCEPT !.asm = @ \cup {b \in offset..(offset + len - 1) : b >= rs.read_off}]

Assembler_read(rs, n) ==
    [rs EXCEPT !.asm = @ \ (rs.read_off..(rs.read_off + n - 1)),
               !.read_off = @ + n]

(***************************************************************************)
(* Retransmits: the frames waiting to be put on a packet, or carried by a  *)
(* sent packet.  new_connection_id is never set by the code and is left    *)
(* out.  A STREAM frame is [id, offset, len, fin]: data is modelled by its *)
(* length.                                                                 *)
(***************************************************************************)
Retransmits_default ==
    [ max_data |-> FALSE,
      max_uni_stream_id |-> FALSE,
      max_bi_stream_id |-> FALSE,
      ping |-> FALSE,
      stream |-> <<>>,
      path_response |-> <<>>,
      rst_stream |-> <<>>,
      stop_sending |-> <<>>,
      max_stream_data |-> {} ]

Retransmits_is_empty(r) ==
    /\ ~r.max_data
    /\ ~r.max_uni_stream_id
    /\ ~r.max_bi_stream_id
    /\ ~r.ping
    /\ r.stream = <<>>
    /\ r.path_response = <<>>
    /\ r.rst_stream = <<>>
    /\ r.stop_sending = <<>>
    /\ r.max_stream_data = {}

\* Retransmits::path_challenge: the challenge of the latest packet wins.
\* path_response is <<>> (None) or <<packet, token>>.
path_challenge(r, packet, token) ==
    IF r.path_response = <<>> \/ packet > r.path_response[1]
    THEN [r EXCEPT !.path_response = <<packet, token>>]
    ELSE r

\* impl AddAssign for Retransmits
Retransmits_add(r, rhs) ==
    LET merged ==
            [ max_data |-> r.max_data \/ rhs.max_data,
              max_uni_stream_id |-> r.max_uni_stream_id \/ rhs.max_uni_stream_id,
              max_bi_stream_id |-> r.max_bi_stream_id \/ rhs.max_bi_stream_id,
              ping |-> r.ping \/ rhs.ping,
              stream |-> r.stream \o rhs.stream,
              path_response |-> r.path_response,
              rst_stream |-> r.rst_stream \o rhs.rst_stream,
              stop_sending |-> r.stop_sending \o rhs.stop_sending,
              max_stream_data |-> r.max_stream_data \cup rhs.max_stream_data ]
    IN  IF rhs.path_response = <<>> THEN merged
        ELSE path_challenge(merged, rhs.path_response[1], rhs.path_response[2])

\* A STREAM frame.
StreamFrame(id, offset, len, fin) ==
    [id |-> id, offset |-> offset, len |-> len, fin |-> fin]

(***************************************************************************)
(* Timer settings: Option<Option<u64>> of set_idle / set_loss_detection.   *)
(***************************************************************************)
NoChange == [kind |-> "none", time |-> 0]

Stop == [kind |-> "stop", time |-> 0]

Start(t) == [kind |-> "start", time |-> t]

(***************************************************************************)
(* Connection::new and Connection::connect.                                *)
(***************************************************************************)
\* The streams Connection::new creates: the peer's unidirectional slots,
\* stream 0, and the peer's bidirectional slots.
InitialStreams(side, config) ==
    LET uni == {StreamId_new(Other(side), "Uni", i) : i \in 0..(config.max_remote_uni_streams - 1)}
        max_remote_bi == config.max_remote_bi_streams + (IF side = "Server" THEN 1 ELSE 0)
        first == IF side = "Server" THEN 1 ELSE 0
        bi == {StreamId_new(Other(side), "Bi", i) : i \in first..(max_remote_bi - 1)}
    IN  [id \in uni \cup {0} \cup bi |->
            IF id \in uni THEN Stream_recv_only(config.stream_receive_window)
            ELSE Stream_new_bi(config.stream_receive_window)]

\* history: decrypt_packet has not looked at a packet in this call
NoDecrypt == [res |-> "none"]

\* Connection::new, before connect() runs.  The server's state is None until
\* handshake_complete.
Connection_new(side, config) ==
    [ side |-> side,
      app_closed |-> FALSE,
      state |-> "None",
      clienthello_packet |-> -1,
      rem_cid_set |-> FALSE,
      \* the remote connection ID: "" is the ID of length zero.  A client
      \* starts with the random ID Endpoint::connect drew, a server with the
      \* source ID of the Initial packet.
      rem_cid |-> "initial",
      tls |-> [handshaking |-> TRUE, fed |-> FALSE],
      rx_packet |-> 0,
      rx_packet_time |-> 0,
      crypto |-> FALSE,
      prev_crypto |-> -1,
      crypto_epoch |-> 0,
      prev_crypto_epoch |-> -1,
      key_phase |-> FALSE,
      params |-> TransportParameters_new(config),
      readable_streams |-> {},
      blocked_streams |-> {},
      max_data |-> 0,
      data_sent |-> 0,
      data_recvd |-> 0,
      local_max_data |-> config.receive_window,
      handshake_count |-> 0,
      tlp_count |-> 0,
      rto_count |-> 0,
      reordering_threshold |->
          IF config.using_time_loss_detection THEN U64_MAX
          ELSE config.reordering_threshold,
      loss_time |-> 0,
      latest_rtt |-> 0,
      smoothed_rtt |-> 0,
      rttvar |-> 0,
      min_rtt |-> U64_MAX,
      max_ack_delay |-> 0,
      largest_sent_before_rto |-> 0,
      time_of_last_sent_retransmittable_packet |-> 0,
      time_of_last_sent_handshake_packet |-> 0,
      largest_sent_packet |-> 0,
      largest_acked_packet |-> 0,
      sent_packets |-> EmptyMap,
      bytes_in_flight |-> 0,
      congestion_window |-> config.initial_window,
      end_of_recovery |-> 0,
      ssthresh |-> U64_MAX,
      awaiting_handshake |-> FALSE,
      handshake_pending |-> Retransmits_default,
      pending |-> Retransmits_default,
      pending_acks |-> {},
      permit_ack_only |-> FALSE,
      set_idle |-> NoChange,
      set_loss_detection |-> NoChange,
      streams |-> InitialStreams(side, config),
      next_uni |-> 0,
      next_bi |-> IF side = "Client" THEN 1 ELSE 0,
      max_uni |-> 0,
      max_bi |-> 0,
      max_remote_uni |-> config.max_remote_uni_streams,
      max_remote_bi |->
          config.max_remote_bi_streams + (IF side = "Server" THEN 1 ELSE 0),
      finished |-> <<>>,
      mtu |-> MIN_MTU,
      panicked |-> FALSE,
      h_sent |-> <<>>,
      h_tx |-> <<>>,
      h_lost |-> {},
      h_debits |-> EmptyMap,
      h_emit |-> <<>>,
      h_dup |-> FALSE,
      h_intent |-> [kind |-> "none", by |-> "new"],
      h_acked |-> {},
      h_ack_moved |-> FALSE,
      h_final |-> EmptyMap,
      h_past_final |-> FALSE,
      h_err |-> "",
      h_vn |-> "-",
      h_retry |-> -1,
      h_idle_from |-> "-",
      h_write |-> [stream |-> -1, len |-> 0, res |-> "", n |-> 0],
      h_open |-> <<>>,
      h_loss |-> <<>>,
      h_built |-> <<>>,
      h_stop |-> <<>>,
      h_delivered |-> <<>>,
      h_decrypt |-> NoDecrypt,
      \* the iteration order of blocked_streams, readable_streams and
      \* pending.max_stream_data during the current call
      hash_order |-> <<>> ]

\* Streams::get_send_mut(id) is Some
has_send(c, id) == id \in DOMAIN c.streams /\ c.streams[id].send.state # "Absent"

\* Streams::get_recv_mut(id) is Some
has_recv(c, id) == id \in DOMAIN c.streams /\ c.streams[id].recv.state # "Absent"

\* A panic (unwrap of None, failed assertion, unreachable!()) ends the program.
Panic(c) == [c EXCEPT !.panicked = TRUE]

transmit_handshake(c, len) ==
    LET ss == c.streams[0].send
    IN  [c EXCEPT
            !.streams[0].send.offset = @ + len,
            !.streams[0].send.bytes_in_flight = @ + len,
            !.handshake_pending.stream = Append(@, StreamFrame(0, ss.offset, len, FALSE)),
            !.awaiting_handshake = TRUE]

transmit(c, stream, len) ==
    IF ~has_send(c, stream) \/ c.streams[stream].send.state # "Ready" THEN Panic(c)
    ELSE
    LET ss == c.streams[stream].send
    IN  [c EXCEPT
            !.streams[stream].send.offset = @ + len,
            !.streams[stream].send.bytes_in_flight = @ + len,
            !.data_sent = IF stream # 0 THEN @ + len ELSE @,
            !.pending.stream = Append(@, StreamFrame(stream, ss.offset, len, FALSE))]

\* Connection::connect: queue the ClientHello (hello bytes) and enter Handshake.
connect(c, hello) ==
    [transmit_handshake(c, hello) EXCEPT
        !.state = "Handshake",
        !.clienthello_packet = -1,
        !.rem_cid_set = FALSE]

(***************************************************************************)
(* Packet numbers, sent packets, loss detection and congestion control.    *)
(***************************************************************************)
\* A SentPacket.  acks is the set of packet numbers its ACK frame covered.
SentPacket(time, bytes, handshake, acks, retransmits) ==
    [time |-> time, bytes |-> bytes, handshake |-> handshake, acks |-> acks,
     retransmits |-> retransmits]

\* get_tx_number handing out the number it handed out last
get_tx_number_stale(c) ==
    [c EXCEPT !.h_tx = Append(@, c.largest_sent_packet)]

\* The new number is the result's largest_sent_packet.  The assertion
\* largest_sent_packet < 2^62 cannot fail below MaxTx.
get_tx_number(c) ==
    [c EXCEPT !.largest_sent_packet = @ + 1,
              !.h_tx = Append(@, c.largest_sent_packet + 1)]

in_recovery(c, packet) == packet <= c.end_of_recovery

rto(c, config) ==
    Max(c.smoothed_rtt + 4 * c.rttvar + c.max_ack_delay, config.min_rto_timeout)
        * Pow2(c.rto_count)

congestion_blocked(c) == SatSub(c.congestion_window, c.bytes_in_flight) < c.mtu

blocked(c) == c.data_sent >= c.max_data \/ congestion_blocked(c)

\* history: the latest loss-detection timer intent and the code that wrote it
Intent(kind, by) == [kind |-> kind, by |-> by]

set_loss_detection_alarm(c, config) ==
    IF c.bytes_in_flight = 0
    THEN [c EXCEPT !.set_loss_detection = Stop,
                   !.h_intent = Intent("stop", "set_loss_detection_alarm")]
    ELSE IF c.awaiting_handshake THEN
        LET base == IF c.smoothed_rtt = 0 THEN 2 * config.default_initial_rtt
                    ELSE 2 * c.smoothed_rtt
            alarm_duration ==
                Max(base + c.max_ack_delay, config.min_tlp_timeout)
                    * Pow2(c.handshake_count)
        IN  [c EXCEPT
                !.set_loss_detection =
                    Start(c.time_of_last_sent_handshake_packet + alarm_duration),
                !.h_intent = Intent("start", "set_loss_detection_alarm")]
    ELSE IF /\ c.loss_time # 0
            /\ c.loss_time < c.time_of_last_sent_retransmittable_packet
            /\ config.overflow_checks
    THEN \* attempt to subtract with overflow
         Panic(c)
    ELSE
        LET tlp_duration ==
                Max((3 * c.smoothed_rtt) \div 2 + c.max_ack_delay, config.min_tlp_timeout)
            \* loss_time - time_of_last_sent_retransmittable_packet is added back
            \* to time_of_last_sent_retransmittable_packet below; without
            \* overflow checks a difference below 0 wraps and the sum wraps back.
            alarm_duration ==
                IF c.loss_time # 0
                THEN c.loss_time - c.time_of_last_sent_retransmittable_packet
                ELSE IF c.tlp_count < config.max_tlps
                     THEN Min(rto(c, config), tlp_duration)
                     ELSE rto(c, config)
        IN  [c EXCEPT
                !.set_loss_detection =
                    Start(c.time_of_last_sent_retransmittable_packet + alarm_duration),
                !.h_intent = Intent("start", "set_loss_detection_alarm")]

\* on_packet_sent leaving the loss-detection alarm as it was
on_packet_sent_unarmed(c, config, t, packet_number, packet) ==
    LET c1 == [c EXCEPT
                !.largest_sent_packet = packet_number,
                !.awaiting_handshake = @ \/ packet.handshake,
                !.sent_packets = With(@, packet_number, packet),
                !.h_sent = Append(@, packet_number),
                !.h_dup = @ \/ packet_number \in DOMAIN c.sent_packets]
    IN  IF packet.bytes # 0
        THEN [c1 EXCEPT
                !.time_of_last_sent_retransmittable_packet = t,
                !.time_of_last_sent_handshake_packet =
                    IF packet.handshake THEN t ELSE @,
                !.bytes_in_flight = @ + packet.bytes]
        ELSE c1

on_packet_sent(c, config, t, packet_number, packet) ==
    LET c1 == [c EXCEPT
                !.largest_sent_packet = packet_number,
                !.awaiting_handshake = @ \/ packet.handshake,
                !.sent_packets = With(@, packet_number, packet),
                !.h_sent = Append(@, packet_number),
                !.h_dup = @ \/ packet_number \in DOMAIN c.sent_packets]
    IN  IF packet.bytes # 0
        THEN set_loss_detection_alarm(
                [c1 EXCEPT
                    !.time_of_last_sent_retransmittable_packet = t,
                    !.time_of_last_sent_handshake_packet =
                        IF packet.handshake THEN t ELSE @,
                    !.bytes_in_flight = @ + packet.bytes],
                config)
        ELSE c1

update_rtt(c, ack_delay, ack_only) ==
    LET min_rtt == Min(c.min_rtt, c.latest_rtt)
        adjust == c.latest_rtt - min_rtt > ack_delay
        latest_rtt == IF adjust THEN c.latest_rtt - ack_delay ELSE c.latest_rtt
        max_ack_delay ==
            IF adjust /\ ~ack_only THEN Max(c.max_ack_delay, ack_delay)
            ELSE c.max_ack_delay
        rttvar_sample ==
            IF c.smoothed_rtt >= latest_rtt THEN c.smoothed_rtt - latest_rtt
            ELSE latest_rtt - c.smoothed_rtt
    IN  [c EXCEPT
            !.min_rtt = min_rtt,
            !.latest_rtt = latest_rtt,
            !.max_ack_delay = max_ack_delay,
            !.smoothed_rtt =
                IF c.smoothed_rtt = 0 THEN latest_rtt
                ELSE (7 * c.smoothed_rtt + latest_rtt) \div 8,
            !.rttvar =
                IF c.smoothed_rtt = 0 THEN latest_rtt \div 2
                ELSE (3 * c.rttvar + rttvar_sample) \div 4]

\* Discard state for a stream if it is fully closed; a closed stream of the
\* peer's frees a slot, so a new one is created and MAX_STREAM_ID is queued.
maybe_cleanup(c, config, id) ==
    IF id \notin DOMAIN c.streams THEN Panic(c)
    ELSE IF ~Stream_is_closed(c.streams[id]) THEN c
    ELSE LET removed == [c EXCEPT !.streams = Without(@, id)]
         IN  IF initiator(id) = c.side THEN removed
             ELSE IF directionality(id) = "Uni"
             THEN [removed EXCEPT
                    !.max_remote_uni = @ + 1,
                    !.pending.max_uni_stream_id = TRUE,
                    !.streams = With(@,
                        StreamId_new(Other(c.side), "Uni", c.max_remote_uni),
                        Stream_recv_only(config.stream_receive_window))]
             ELSE [removed EXCEPT
                    !.max_remote_bi = @ + 1,
                    !.pending.max_bi_stream_id = TRUE,
                    !.streams = With(@,
                        StreamId_new(Other(c.side), "Bi", c.max_remote_bi),
                        Stream_new_bi(config.stream_receive_window))]

\* on_packet_acked, the loop over the acknowledged packet's RST_STREAM frames.
RECURSIVE acked_rst_streams(_, _, _)
acked_rst_streams(c, config, rsts) ==
    IF rsts = <<>> \/ c.panicked THEN c
    ELSE LET id == Head(rsts)[1]
         IN  IF ~has_send(c, id) THEN Panic(c)
             ELSE IF c.streams[id].send.state = "ResetSent"
             THEN LET c1 == [c EXCEPT !.streams[id].send.state = "ResetRecvd"]
                      c2 == IF c.streams[id].send.stop_reason = -1
                            THEN maybe_cleanup(c1, config, id) ELSE c1
                  IN  acked_rst_streams(c2, config, Tail(rsts))
             ELSE acked_rst_streams(c, config, Tail(rsts))

\* on_packet_acked, the loop over the acknowledged packet's STREAM frames.
RECURSIVE acked_stream_frames(_, _, _)
acked_stream_frames(c, config, frames) ==
    IF frames = <<>> \/ c.panicked THEN c
    ELSE LET frame == Head(frames)
         IN  IF ~has_send(c, frame.id) THEN acked_stream_frames(c, config, Tail(frames))
             ELSE
             LET ss == c.streams[frame.id].send
                 left == ss.bytes_in_flight - frame.len
                 recvd == ss.state = "DataSent" /\ left = 0
                 c1 == [c EXCEPT
                         !.streams[frame.id].send.bytes_in_flight = left,
                         !.streams[frame.id].send.state =
                             IF recvd THEN "DataRecvd" ELSE @]
                 c2 == IF recvd
                       THEN [maybe_cleanup(c1, config, frame.id) EXCEPT
                               !.finished = Append(@, frame.id)]
                       ELSE c1
             IN  acked_stream_frames(c2, config, Tail(frames))

\* history: one more subtraction of packet's bytes from bytes_in_flight
Debit(c, packet) ==
    [c EXCEPT !.h_debits =
        With(@, packet, IF packet \in DOMAIN @ THEN @[packet] + 1 ELSE 1)]

\* on_packet_acked forgetting to take the packet's bytes out of flight
on_packet_acked_held(c, config, packet) ==
    IF packet \notin DOMAIN c.sent_packets THEN c
    ELSE
    LET info == c.sent_packets[packet]
        c1 == Debit([c EXCEPT !.sent_packets = Without(@, packet)], packet)
        c3 == [c1 EXCEPT
                !.congestion_window =
                    IF c1.rto_count > 0 /\ packet > c1.largest_sent_before_rto
                    THEN config.minimum_window ELSE @,
                !.handshake_count = 0,
                !.tlp_count = 0,
                !.rto_count = 0]
        c4 == acked_rst_streams(c3, config, info.retransmits.rst_stream)
        c5 == acked_stream_frames(c4, config, info.retransmits.stream)
    IN  [c5 EXCEPT !.pending_acks = @ \ info.acks]

\* history: on_packet_acked took packet out of sent_packets; c is the
\* connection before and r after.
Delivered(c, r, packet, bytes) ==
    [r EXCEPT !.h_delivered =
        Append(@, [packet |-> packet, bytes |-> bytes,
                   end_of_recovery |-> c.end_of_recovery,
                   rto_count |-> c.rto_count,
                   largest_sent_before_rto |-> c.largest_sent_before_rto,
                   ssthresh |-> c.ssthresh,
                   before |-> c.congestion_window,
                   after |-> r.congestion_window])]

\* on_packet_acked collapsing the window for a packet sent before the RTO
on_packet_acked_spurious(c, config, packet) ==
    IF packet \notin DOMAIN c.sent_packets THEN c
    ELSE
    LET info == c.sent_packets[packet]
        c1 == Debit([c EXCEPT !.sent_packets = Without(@, packet)], packet)
        grow ==
            IF c1.congestion_window < c1.ssthresh THEN info.bytes
            ELSE (config.default_mss * info.bytes) \div c1.congestion_window
        c2 == IF info.bytes # 0
              THEN [c1 EXCEPT
                      !.bytes_in_flight = @ - info.bytes,
                      !.congestion_window =
                          IF ~in_recovery(c1, packet) THEN @ + grow ELSE @]
              ELSE c1
        c3 == [c2 EXCEPT
                !.congestion_window =
                    IF c2.rto_count > 0 /\ packet <= c2.largest_sent_before_rto
                    THEN config.minimum_window ELSE @,
                !.handshake_count = 0,
                !.tlp_count = 0,
                !.rto_count = 0]
        c4 == acked_rst_streams(c3, config, info.retransmits.rst_stream)
        c5 == acked_stream_frames(c4, config, info.retransmits.stream)
    IN  Delivered(c, [c5 EXCEPT !.pending_acks = @ \ info.acks], packet, info.bytes)

on_packet_acked(c, config, packet) ==
    IF packet \notin DOMAIN c.sent_packets THEN c
    ELSE
    LET info == c.sent_packets[packet]
        c1 == Debit([c EXCEPT !.sent_packets = Without(@, packet)], packet)
        grow ==
            IF c1.congestion_window < c1.ssthresh THEN info.bytes
            ELSE (config.default_mss * info.bytes) \div c1.congestion_window
        c2 == IF info.bytes # 0
              THEN [c1 EXCEPT
                      !.bytes_in_flight = @ - info.bytes,
                      !.congestion_window =
                          IF ~in_recovery(c1, packet) THEN @ + grow ELSE @]
              ELSE c1
        c3 == [c2 EXCEPT
                !.congestion_window =
                    IF c2.rto_count > 0 /\ packet > c2.largest_sent_before_rto
                    THEN config.minimum_window ELSE @,
                !.handshake_count = 0,
                !.tlp_count = 0,
                !.rto_count = 0]
        c4 == acked_rst_streams(c3, config, info.retransmits.rst_stream)
        c5 == acked_stream_frames(c4, config, info.retransmits.stream)
    IN  Delivered(c, [c5 EXCEPT !.pending_acks = @ \ info.acks], packet, info.bytes)

\* Remove lost packets (ascending), requeue their frames, subtract their bytes.
RECURSIVE remove_lost(_, _)
remove_lost(c, lost) ==
    IF lost = <<>> THEN c
    ELSE LET packet == Head(lost)
             info == c.sent_packets[packet]
             c1 == Debit([c EXCEPT
                     !.sent_packets = Without(@, packet),
                     !.handshake_pending =
                         IF info.handshake THEN Retransmits_add(@, info.retransmits) ELSE @,
                     !.pending =
                         IF info.handshake THEN @ ELSE Retransmits_add(@, info.retransmits),
                     !.bytes_in_flight = @ - info.bytes,
                     !.h_lost = @ \cup {packet}], packet)
         IN  remove_lost(c1, Tail(lost))

\* delay_until_lost of detect_lost_packets
delay_until_lost(c, config, largest_acked) ==
    LET rtt == Max(c.latest_rtt, c.smoothed_rtt)
    IN  IF config.using_time_loss_detection
        THEN (rtt + (rtt * config.time_reordering_fraction)) \div 65536
        ELSE IF largest_acked = c.largest_sent_packet THEN (5 * rtt) \div 4
        ELSE U64_MAX

\* congestion_event that starts a recovery period at every loss
congestion_event_again(c, config, old_bytes_in_flight, largest_lost) ==
    IF old_bytes_in_flight # c.bytes_in_flight
    THEN [c EXCEPT
            !.end_of_recovery = c.largest_sent_packet,
            !.congestion_window =
                Max((c.congestion_window * config.loss_reduction_factor) \div 65536,
                    config.minimum_window),
            !.ssthresh =
                Max((c.congestion_window * config.loss_reduction_factor) \div 65536,
                    config.minimum_window)]
    ELSE c

\* detect_lost_packets after the lost packets were removed: the congestion
\* window shrinks unless only ACK-only packets were lost (the bytes in flight
\* did not change) or the loss falls into the current recovery period.
congestion_event(c, config, old_bytes_in_flight, largest_lost) ==
    IF old_bytes_in_flight # c.bytes_in_flight /\ ~in_recovery(c, largest_lost)
    THEN [c EXCEPT
            !.end_of_recovery = c.largest_sent_packet,
            !.congestion_window =
                Max((c.congestion_window * config.loss_reduction_factor) \div 65536,
                    config.minimum_window),
            !.ssthresh =
                Max((c.congestion_window * config.loss_reduction_factor) \div 65536,
                    config.minimum_window)]
    ELSE c

\* history: detect_lost_packets declared the packets in lost lost; c is the
\* connection before and r after.
Lost(c, r, lost, t, delay, largest_acked) ==
    [r EXCEPT !.h_loss =
        Append(@, [lost |-> lost,
                   age |-> [p \in lost |-> t - c.sent_packets[p].time],
                   delay_until_lost |-> delay,
                   rtt |-> Max(c.latest_rtt, c.smoothed_rtt),
                   largest_acked |-> largest_acked,
                   nonack |-> \E p \in lost : c.sent_packets[p].bytes # 0,
                   largest_sent_packet |-> c.largest_sent_packet,
                   end_of_recovery |-> c.end_of_recovery,
                   before |-> c.congestion_window,
                   ssthresh |-> c.ssthresh,
                   after |-> [congestion_window |-> r.congestion_window,
                              end_of_recovery |-> r.end_of_recovery,
                              ssthresh |-> r.ssthresh]])]

detect_lost_packets(c, config, t, largest_acked) ==
    LET delay == delay_until_lost(c, config, largest_acked)
        candidates == {p \in DOMAIN c.sent_packets : p < largest_acked}
        lost_packets == {p \in candidates :
                            \/ t - c.sent_packets[p].time >= delay
                            \/ largest_acked - p > c.reordering_threshold}
        kept == candidates \ lost_packets
        \* loss_time is set by the first (smallest) packet that is not lost
        loss_time ==
            IF kept # {} /\ delay # U64_MAX
            THEN t + delay - (t - c.sent_packets[SetMin(kept)].time)
            ELSE 0
    IN  IF lost_packets = {} THEN [c EXCEPT !.loss_time = loss_time]
        ELSE Lost(c,
                congestion_event(
                    remove_lost([c EXCEPT !.loss_time = loss_time], Ascending(lost_packets)),
                    config, c.bytes_in_flight, SetMax(lost_packets)),
                lost_packets, t, delay, largest_acked)

(***************************************************************************)
(* Wire sizes.  The codecs (frame.rs, packet.rs) fix these; the model uses *)
(* one size per header and frame type.  Connection IDs are 8 bytes, packet *)
(* numbers and variable-length integers one byte.                          *)
(***************************************************************************)
SHORT_HEADER_LEN == 10

LONG_HEADER_LEN == 25

INITIAL_HEADER_LEN == 26

HeaderLen(ty) ==
    CASE ty = "Initial" -> INITIAL_HEADER_LEN
      [] ty = "Handshake" -> LONG_HEADER_LEN
      [] OTHER -> SHORT_HEADER_LEN

\* Encoded size of an ACK frame covering the packet numbers in acks.
AckLen(acks) == 4 + 2 * Cardinality({n \in acks : n + 1 \notin acks})

\* Encoded size of a STREAM frame with an explicit length and len data bytes.
StreamFrameOverhead == 4

\* Encoded size of a CONNECTION_CLOSE / APPLICATION_CLOSE frame.
CloseFrameLen == 5

(***************************************************************************)
(* Context (endpoint.rs): the queues the connection pushes to.  dirty and  *)
(* readable say whether this connection is in dirty_conns, readable_conns; *)
(* config is the endpoint's configuration.  debug_assertions says whether  *)
(* the build checks debug_assert!; the one assertion it guards needs a     *)
(* packet number of 64 or more.                                            *)
(***************************************************************************)
Context_new ==
    [ io |-> <<>>,
      events |-> <<>>,
      dirty |-> FALSE,
      readable |-> FALSE,
      incoming |-> 0,
      incoming_handshakes |-> 0,
      registered |-> FALSE,
      config |-> BaseConfig,
      debug_assertions |-> FALSE,
      h_connection_lost |-> 0,
      \* history: Endpoint::accept has handed the connection out
      h_accepted |-> FALSE ]

IoTransmit(ty, number) ==
    [kind |-> "Transmit", timer |-> "-", time |-> 0, ty |-> ty, number |-> number]

IoTimerStart(timer, time) ==
    [kind |-> "TimerStart", timer |-> timer, time |-> time, ty |-> "-", number |-> 0]

IoTimerStop(timer) ==
    [kind |-> "TimerStop", timer |-> timer, time |-> 0, ty |-> "-", number |-> 0]

\* An application-facing event about a stream (or about none: stream 0).
Event(kind, stream) == [kind |-> kind, stream |-> stream, reason |-> ""]

\* An application-facing event that carries a reason or a direction.
EventOf(kind, reason) == [kind |-> kind, stream |-> 0, reason |-> reason]

PushIo(w, io) == [w EXCEPT !.x.io = Append(@, io)]

\* ctx.events.push_back; history: h_connection_lost counts the
\* ConnectionLost events queued so far.
PushEvent(w, ev) ==
    [w EXCEPT !.x.events = Append(@, ev),
              !.x.h_connection_lost = IF ev.kind = "ConnectionLost" THEN @ + 1 ELSE @]

\* Apply a connection-only operator result to a pair.
SetConn(w, c) == [w EXCEPT !.c = c]

(***************************************************************************)
(* Idle timer, close, probes.                                              *)
(***************************************************************************)
reset_idle_timeout(c, config, t) ==
    LET dt == IF config.idle_timeout = 0 \/ c.params.idle_timeout = 0
              THEN Max(config.idle_timeout, c.params.idle_timeout)
              ELSE Min(config.idle_timeout, c.params.idle_timeout)
    IN  [c EXCEPT !.set_idle = Start(t + dt * IDLE_UNIT)]

on_packet_authenticated(c, config, t, packet) ==
    LET c1 == reset_idle_timeout(c, config, t)
        acks == c1.pending_acks \cup {packet}
        \* RangeSet::len() counts ranges; pop_min() drops the lowest range
        ranges == {n \in acks : n - 1 \notin acks}
        low == SetMin(ranges)
        popped == {n \in acks : \E m \in low..n : m \notin acks}
    IN  [c1 EXCEPT
            !.pending_acks = IF Cardinality(ranges) > MAX_ACK_BLOCKS THEN popped ELSE acks,
            !.rx_packet = IF packet > c1.rx_packet THEN packet ELSE @,
            !.rx_packet_time = IF packet > c1.rx_packet THEN t ELSE @]

\* close_common arming the Close timer one RTO ahead
close_common_short(w, config, t) ==
    PushIo([w EXCEPT !.c.set_loss_detection = Stop,
                     !.c.h_intent = Intent("stop", "close_common")],
           IoTimerStart("Close", t + rto(w.c, config)))

close_common(w, config, t) ==
    PushIo([w EXCEPT !.c.set_loss_detection = Stop,
                     !.c.h_intent = Intent("stop", "close_common")],
           IoTimerStart("Close", t + 3 * rto(w.c, config)))

\* history: a packet with this number was handed to the network
Emit(c, number) == [c EXCEPT !.h_emit = Append(@, number)]

\* TLP/RTO transmit: a PING in a short-header packet.
force_transmit(c, config, t) ==
    LET c1 == get_tx_number(c)
        number == c1.largest_sent_packet
    IN  IF ~c1.crypto THEN Panic(c1)
        ELSE Emit(on_packet_sent(c1, config, t, number,
                    SentPacket(t, SHORT_HEADER_LEN + 1 + AEAD_TAG_SIZE, FALSE, {},
                               Retransmits_default)),
                  number)

\* The close packet's number is the result's largest_sent_packet.
make_close(c) ==
    LET c1 == get_tx_number(c)
    IN  Emit(c1, c1.largest_sent_packet)

set_params(c, params) ==
    LET ids == {StreamId_new(Other(c.side), "Bi", i) : i \in 0..(c.max_remote_bi - 1)}
    IN  IF \E id \in ids : ~has_send(c, id) THEN Panic(c)
        ELSE [c EXCEPT
                !.max_bi = params.initial_max_bidi_streams
                            + (IF c.side = "Client" THEN 1 ELSE 0),
                !.max_uni = params.initial_max_uni_streams,
                !.max_data = params.initial_max_data,
                !.streams = [id \in DOMAIN @ |->
                    IF id \in ids
                    THEN [@[id] EXCEPT !.send.max_data =
                            params.initial_max_stream_data_bidi_local]
                    ELSE @[id]],
                !.params = params]

(***************************************************************************)
(* ACK processing and the loss-detection alarm.                            *)
(***************************************************************************)
\* The order in which an ACK frame's packet numbers are visited: ranges from
\* the largest down, ascending within a range.
RECURSIVE AckOrder(_)
AckOrder(S) ==
    IF S = {} THEN <<>>
    ELSE LET top == SetMax(S)
             run == {n \in S : \A m \in n..top : m \in S}
         IN  Ascending(run) \o AckOrder(S \ run)

RECURSIVE ack_packets(_, _, _)
ack_packets(c, config, packets) ==
    IF packets = <<>> THEN c
    ELSE ack_packets(on_packet_acked(c, config, Head(packets)), config, Tail(packets))

\* blocked_streams.drain(): one StreamWritable event per blocked stream
RECURSIVE push_writable(_, _)
push_writable(w, ids) ==
    IF ids = <<>> THEN [w EXCEPT !.c.blocked_streams = {}]
    ELSE push_writable(PushEvent(w, Event("StreamWritable", Head(ids))), Tail(ids))

\* on_ack_received: the RTT sample, taken if the largest acknowledged packet
\* is still in sent_packets.
ack_rtt(c, t, ack) ==
    IF SetMax(ack.acked) \in DOMAIN c.sent_packets
    THEN update_rtt([c EXCEPT !.latest_rtt = t - c.sent_packets[SetMax(ack.acked)].time],
                    ack.delay * Pow2(c.params.ack_delay_exponent),
                    c.sent_packets[SetMax(ack.acked)].bytes = 0)
    ELSE c

\* on_ack_received, the end: streams blocked on the connection become
\* writable if the ACK unblocked it.
unblock(w, was_blocked) ==
    IF was_blocked /\ ~blocked(w.c)
    THEN push_writable(w, Iterate(w.c.hash_order, w.c.blocked_streams))
    ELSE w

\* history: an ACK frame that covered a packet declared lost earlier moved
\* bytes_in_flight or the congestion window
ack_noted(w, covers_lost, bytes_in_flight, congestion_window) ==
    [w EXCEPT !.c.h_ack_moved =
        @ \/ (covers_lost /\ (w.c.bytes_in_flight # bytes_in_flight
                              \/ w.c.congestion_window # congestion_window))]

\* ack is [acked |-> set of packet numbers, delay |-> encoded delay].
on_ack_received(w, config, t, ack) ==
    ack_noted(
        unblock(
            SetConn(w,
                set_loss_detection_alarm(
                    detect_lost_packets(
                        ack_packets(
                            ack_rtt([w.c EXCEPT
                                        !.largest_acked_packet = Max(@, SetMax(ack.acked)),
                                        !.h_acked = @ \cup ack.acked],
                                    t, ack),
                            config, AckOrder(ack.acked)),
                        config, t, SetMax(ack.acked)),
                    config)),
            blocked(w.c)),
        ack.acked \cap w.c.h_lost # {}, w.c.bytes_in_flight, w.c.congestion_window)

\* retransmit_handshake leaving the packets it takes back in sent_packets
RECURSIVE retransmit_handshake_kept(_, _)
retransmit_handshake_kept(c, packets) ==
    IF packets = <<>> THEN c
    ELSE LET number == Head(packets)
             info == c.sent_packets[number]
             c1 == Debit([c EXCEPT
                     !.handshake_pending = Retransmits_add(@, info.retransmits),
                     !.bytes_in_flight = @ - info.bytes,
                     !.h_lost = @ \cup {number}], number)
         IN  retransmit_handshake_kept(c1, Tail(packets))

\* check_packet_loss, handshake branch: every handshake packet in flight is
\* taken back for retransmission.
RECURSIVE retransmit_handshake(_, _)
retransmit_handshake(c, packets) ==
    IF packets = <<>> THEN c
    ELSE LET number == Head(packets)
             info == c.sent_packets[number]
             c1 == Debit([c EXCEPT
                     !.sent_packets = Without(@, number),
                     !.handshake_pending = Retransmits_add(@, info.retransmits),
                     !.bytes_in_flight = @ - info.bytes,
                     !.h_lost = @ \cup {number}], number)
         IN  retransmit_handshake(c1, Tail(packets))

\* Timer::LossDetection expired.
\* check_packet_loss, the end.
alarm_done(w, config) ==
    IF w.c.panicked THEN w
    ELSE [w EXCEPT !.c = set_loss_detection_alarm(w.c, config), !.x.dirty = TRUE]

\* One probe packet of check_packet_loss: c is force_transmit's result.
push_probe(w, c) ==
    IF w.c.panicked THEN w
    ELSE IF c.panicked THEN SetConn(w, c)
    ELSE PushIo(SetConn(w, c), IoTransmit("Short", c.largest_sent_packet))

probe(w, config, t) == push_probe(w, force_transmit(w.c, config, t))

\* After the probes: the idle timer restarts and the counter advances.
probes_done(w, config, t, tlp) ==
    IF w.c.panicked THEN w
    ELSE alarm_done(
            [w EXCEPT !.c = [reset_idle_timeout(w.c, config, t) EXCEPT
                                !.tlp_count = IF tlp THEN @ + 1 ELSE @,
                                !.rto_count = IF tlp THEN @ ELSE @ + 1]],
            config)

\* check_packet_loss recording largest_sent_before_rto at every RTO.
check_packet_loss_rerecording(w, config, t) ==
    IF w.c.awaiting_handshake
    THEN alarm_done(
            SetConn(w,
                [retransmit_handshake(
                    w.c,
                    Ascending({n \in DOMAIN w.c.sent_packets :
                                    w.c.sent_packets[n].handshake}))
                    EXCEPT !.handshake_count = @ + 1]),
            config)
    ELSE IF w.c.loss_time # 0
    THEN alarm_done(
            SetConn(w, detect_lost_packets(w.c, config, t, w.c.largest_acked_packet)),
            config)
    ELSE IF w.c.tlp_count < config.max_tlps
    THEN probes_done(probe(w, config, t), config, t, TRUE)
    ELSE probes_done(
            probe(probe([w EXCEPT !.c.largest_sent_before_rto = w.c.largest_sent_packet],
                        config, t),
                  config, t),
            config, t, FALSE)

check_packet_loss(w, config, t) ==
    IF w.c.awaiting_handshake
    THEN alarm_done(
            SetConn(w,
                [retransmit_handshake(
                    w.c,
                    Ascending({n \in DOMAIN w.c.sent_packets :
                                    w.c.sent_packets[n].handshake}))
                    EXCEPT !.handshake_count = @ + 1]),
            config)
    ELSE IF w.c.loss_time # 0
    THEN alarm_done(
            SetConn(w, detect_lost_packets(w.c, config, t, w.c.largest_acked_packet)),
            config)
    ELSE IF w.c.tlp_count < config.max_tlps
    THEN \* Tail Loss Probe
         probes_done(probe(w, config, t), config, t, TRUE)
    ELSE \* RTO
         probes_done(
            probe(probe([w EXCEPT !.c.largest_sent_before_rto =
                            IF w.c.rto_count = 0 THEN w.c.largest_sent_packet ELSE @],
                        config, t),
                  config, t),
            config, t, FALSE)

\* Consider all previously transmitted handshake packets to be delivered.
handshake_cleanup(c, config) ==
    IF ~c.awaiting_handshake THEN c
    ELSE LET c1 == [c EXCEPT !.awaiting_handshake = FALSE,
                             !.handshake_pending = Retransmits_default]
             packets == {n \in DOMAIN c1.sent_packets : c1.sent_packets[n].handshake}
         IN  set_loss_detection_alarm(
                ack_packets(c1, config, Ascending(packets)), config)

(***************************************************************************)
(* The TLS session is an opaque collaborator.  The model keeps whether it  *)
(* is still handshaking and whether bytes were fed to it since it last     *)
(* processed its input; how it reacts to the bytes of a packet (outcome:   *)
(* "ongoing", "complete", "error", or "alert" for the error              *)
(* TLSError::AlertReceived) and how many bytes it writes back (tls_out)    *)
(* are inputs carried by the packet.                                       *)
(***************************************************************************)
\* tls.process_new_packets(): nothing happens unless bytes were fed.
process_new_packets(c, outcome) ==
    IF ~c.tls.fed THEN [c |-> c, ok |-> TRUE]
    ELSE [c |-> [c EXCEPT !.tls.fed = FALSE,
                          !.tls.handshaking = IF outcome = "complete" THEN FALSE ELSE @],
          ok |-> outcome \notin {"error", "alert"}]

\* Feed a stream 0 frame to the TLS session through the assembler: one read
\* into a buffer of 8192 bytes, what is left stays in the assembler.
read_tls(c, frame) ==
    IF ~has_recv(c, 0) THEN Panic(c)
    ELSE LET rs == Assembler_insert(c.streams[0].recv, frame.offset, frame.len)
             n == Min(Readable(rs, rs.read_off), 8192)
         IN  [c EXCEPT !.streams[0].recv = Assembler_read(rs, n),
                       !.tls.fed = @ \/ n > 0]

\* parse_initial: the stream 0 frame of an Initial packet's payload;
\* [ok, found, frame].
RECURSIVE parse_initial(_, _)
parse_initial(frames, result) ==
    IF frames = <<>> THEN result
    ELSE LET frame == Head(frames)
         IN  IF frame.ty \in {"Padding", "Ack"} THEN parse_initial(Tail(frames), result)
             ELSE IF frame.ty = "Stream" /\ frame.id = 0 /\ ~frame.fin
             THEN IF frame.offset # 0 THEN [ok |-> FALSE, found |-> FALSE, frame |-> frame]
                  ELSE parse_initial(Tail(frames),
                                     [ok |-> TRUE, found |-> TRUE, frame |-> frame])
             ELSE [ok |-> FALSE, found |-> FALSE, frame |-> frame]

handshake_complete(w, config, params, t, packet_number, hello) ==
    LET c1 == on_packet_authenticated(w.c, config, t, packet_number)
        c2 == [transmit_handshake(c1, hello) EXCEPT
                !.state = "Handshake",
                !.clienthello_packet = -1,
                !.rem_cid_set = TRUE]
    IN  [w EXCEPT !.c = set_params(c2, params),
                  !.x.dirty = TRUE,
                  !.x.incoming_handshakes = @ + 1]

\* Connection::handle_initial (server).  The result's err is the transport
\* error returned, or "" for Ok(()).
handle_initial(w, config, t, packet) ==
    LET parsed == parse_initial(packet.frames,
                                [ok |-> TRUE, found |-> FALSE, frame |-> <<>>])
    IN  IF ~(parsed.ok /\ parsed.found) THEN [w |-> w, err |-> ""]
        ELSE
        LET c1 == read_tls(w.c, parsed.frame)
            p == process_new_packets(c1, packet.tls)
        IN  IF ~p.ok THEN [w |-> SetConn(w, p.c), err |-> "TLS_HANDSHAKE_FAILED"]
            ELSE IF packet.params = "none" THEN [w |-> SetConn(w, Panic(p.c)), err |-> ""]
            ELSE IF packet.params = "bad"
            THEN [w |-> SetConn(w, p.c), err |-> "TRANSPORT_PARAMETER_ERROR"]
            ELSE [w |-> handshake_complete(SetConn(w, p.c), config, packet.peer_params,
                                           t, packet.number, packet.tls_out),
                  err |-> ""]

\* handle_connected_inner, state Handshake, Handshake packet: the frame loop.
\* ret is "" when the loop ran to its end, "Draining" for an early
\* Ok(State::Draining), or the transport error returned.
RECURSIVE handshake_frames(_, _, _, _, _)
handshake_frames(w, config, t, number, frames) ==
    IF frames = <<>> \/ w.c.panicked THEN [w |-> w, ret |-> ""]
    ELSE
    LET frame == Head(frames)
        w1 == IF frame.ty # "Ack" THEN [w EXCEPT !.c.permit_ack_only = TRUE] ELSE w
    IN  CASE frame.ty = "Padding" -> handshake_frames(w1, config, t, number, Tail(frames))
          [] frame.ty = "Stream" /\ frame.id = 0 ->
                handshake_frames(SetConn(w1, read_tls(w1.c, frame)), config, t, number,
                                 Tail(frames))
          [] frame.ty = "Stream" /\ frame.id # 0 ->
                [w |-> w1, ret |-> "PROTOCOL_VIOLATION"]
          [] frame.ty = "Ack" ->
                handshake_frames(on_ack_received(w1, config, t, frame), config, t, number,
                                 Tail(frames))
          [] frame.ty = "ConnectionClose" ->
                [w |-> PushEvent(w1, EventOf("ConnectionLost", "ConnectionClosed")),
                 ret |-> "Draining"]
          [] frame.ty = "ApplicationClose" ->
                [w |-> PushEvent(w1, EventOf("ConnectionLost", "ApplicationClosed")),
                 ret |-> "Draining"]
          [] frame.ty = "PathChallenge" ->
                handshake_frames(
                    [w1 EXCEPT !.c.handshake_pending =
                        path_challenge(@, number, frame.token)],
                    config, t, number, Tail(frames))
          [] OTHER -> [w |-> w1, ret |-> "PROTOCOL_VIOLATION"]

\* The handshake is complete: parameters are installed (c), the last flight
\* goes out, the application or the accept queue learns of the connection.
handshake_done(w, c, tls_out) ==
    [w |-> IF c.side = "Client"
           THEN PushEvent(SetConn(w, [transmit_handshake(c, tls_out) EXCEPT !.crypto = TRUE]),
                          Event("Connected", 0))
           ELSE [w EXCEPT !.c = [transmit(c, 0, tls_out) EXCEPT !.crypto = TRUE],
                          !.x.incoming_handshakes = @ - 1,
                          !.x.incoming = @ + 1],
     state |-> "Established", err |-> ""]

\* The handshake goes on: c is the connection after handshake_cleanup.
handshake_ongoing(w, c, tls_out) ==
    [w |-> SetConn(w, IF tls_out # 0 THEN transmit_handshake(c, tls_out) ELSE c),
     state |-> "Handshake", err |-> ""]

\* After the frames of a Handshake packet: p is what process_new_packets
\* returned.
after_handshake_tls(w, config, packet, p) ==
    IF ~p.ok
    THEN [w |-> SetConn(w, p.c), state |-> "Handshake", err |-> "TLS_HANDSHAKE_FAILED"]
    ELSE IF ~p.c.tls.handshaking
    THEN \* no longer handshaking
         IF packet.params = "none"
         THEN [w |-> SetConn(w, p.c), state |-> "Handshake",
               err |-> "TLS_HANDSHAKE_FAILED"]
         ELSE IF packet.params = "bad"
         THEN [w |-> SetConn(w, p.c), state |-> "Handshake",
               err |-> "TRANSPORT_PARAMETER_ERROR"]
         ELSE handshake_done(w, handshake_cleanup(set_params(p.c, packet.peer_params),
                                                  config),
                             packet.tls_out)
    ELSE handshake_ongoing(w, handshake_cleanup(p.c, config), packet.tls_out)

\* f is what the frame loop returned.
after_handshake_frames(f, config, packet) ==
    IF f.w.c.panicked THEN [w |-> f.w, state |-> "Handshake", err |-> ""]
    ELSE IF f.ret = "Draining" THEN [w |-> f.w, state |-> "Draining", err |-> ""]
    ELSE IF f.ret # "" THEN [w |-> f.w, state |-> "Handshake", err |-> f.ret]
    ELSE after_handshake_tls(f.w, config, packet,
                             process_new_packets(f.w.c, packet.tls))

\* handle_connected_inner, state Handshake, Handshake packet.  The result is
\* [w, state, err]: Ok(state) when err = "", else Err(err).
handle_handshake_packet(w, config, t, number, packet) ==
    after_handshake_frames(handshake_frames(w, config, t, number, packet.frames),
                           config, packet)

(***************************************************************************)
(* Frame processing in Established (process_payload).                      *)
(***************************************************************************)
\* Streams::get_recv_stream: "STREAM_STATE_ERROR", "STREAM_ID_ERROR", "none"
\* (Ok(None): the stream is gone) or "some".
get_recv_stream(c, id) ==
    IF c.side = initiator(id)
    THEN IF directionality(id) = "Uni" \/ index(id) >= c.next_bi
         THEN "STREAM_STATE_ERROR"
         ELSE IF id \in DOMAIN c.streams THEN "some" ELSE "none"
    ELSE LET limit == IF directionality(id) = "Bi" THEN c.max_remote_bi
                      ELSE c.max_remote_uni
         IN  IF index(id) >= limit THEN "STREAM_ID_ERROR"
             ELSE IF id \in DOMAIN c.streams THEN "some" ELSE "none"

\* Connection::reset: abandon transmitting data on a stream.
reset(w, stream, error_code) ==
    IF ~(directionality(stream) = "Bi" \/ initiator(stream) = w.c.side)
    THEN SetConn(w, Panic(w.c))
    ELSE IF ~has_send(w.c, stream) THEN w
    ELSE IF w.c.streams[stream].send.state \in {"DataRecvd", "ResetSent", "ResetRecvd"}
    THEN w
    ELSE [w EXCEPT !.c.streams[stream].send.state = "ResetSent",
                   !.c.streams[stream].send.stop_reason = -1,
                   !.c.pending.rst_stream = Append(@, <<stream, error_code>>),
                   !.x.dirty = TRUE]

\* history: the final offset of a stream, from the first accepted frame that
\* carried one (a STREAM frame with fin, or a RST_STREAM)
FinalSeen(finals, id, fin, end) ==
    IF fin /\ id \notin DOMAIN finals THEN With(finals, id, end) ELSE finals

\* history: an accepted frame goes beyond the final offset seen earlier, or
\* names another one
PastFinal(finals, id, fin, end) ==
    id \in DOMAIN finals /\ (end > finals[id] \/ (fin /\ end # finals[id]))

\* Frame::Stream.  ret is "" (go on) or the transport error returned.
stream_frame(w, frame) ==
    LET c == w.c
        found == get_recv_stream(c, frame.id)
    IN  IF found \in {"STREAM_STATE_ERROR", "STREAM_ID_ERROR"} THEN [w |-> w, ret |-> found]
        ELSE IF found = "none" THEN [w |-> w, ret |-> ""]
        ELSE IF ~has_recv(c, frame.id) THEN [w |-> SetConn(w, Panic(c)), ret |-> ""]
        ELSE
        LET rs == c.streams[frame.id].recv
            end == frame.offset + frame.len
            final_offset == Recv_final_offset(rs)
            new_bytes == SatSub(end, Recv_limit(rs))
            rs1 == [rs EXCEPT
                     !.size = IF frame.fin /\ rs.state = "Recv" THEN end ELSE @,
                     !.recvd = @ \cup (frame.offset..(end - 1))]
            rs2 == Assembler_insert(rs1, frame.offset, frame.len)
            rs3 == IF rs2.state = "Recv" /\ rs2.size # -1 /\ rs2.recvd # {}
                      /\ rs2.recvd = 0..(rs2.size - 1)
                   THEN [rs2 EXCEPT !.state = "DataRecvd"] ELSE rs2
            n == Readable(rs3, rs3.read_off)
            \* stream 0: hand the bytes to TLS and grant the credit back
            rs4 == [Assembler_read(rs3, n) EXCEPT !.max_data = @ + n]
        IN  IF final_offset # -1 /\ (end > final_offset \/ (frame.fin /\ end # final_offset))
            THEN [w |-> w, ret |-> "FINAL_OFFSET_ERROR"]
            ELSE IF end > rs.max_data \/ c.data_recvd + new_bytes > c.local_max_data
            THEN [w |-> w, ret |-> "FLOW_CONTROL_ERROR"]
            ELSE IF frame.id = 0 /\ frame.fin
            THEN [w |-> [w EXCEPT !.c.streams[frame.id].recv = rs1],
                  ret |-> "PROTOCOL_VIOLATION"]
            ELSE IF frame.id = 0
            THEN [w |-> [w EXCEPT
                          !.c.streams[frame.id].recv = rs4,
                          !.c.tls.fed = @ \/ n > 0,
                          !.c.pending.max_stream_data = @ \cup {0},
                          !.c.data_recvd = @ + new_bytes],
                  ret |-> ""]
            ELSE [w |-> [w EXCEPT
                          !.c.streams[frame.id].recv = rs3,
                          !.c.readable_streams = @ \cup {frame.id},
                          !.x.readable = TRUE,
                          !.c.data_recvd = @ + new_bytes,
                          !.c.h_final = FinalSeen(@, frame.id, frame.fin, end),
                          !.c.h_past_final =
                              @ \/ PastFinal(c.h_final, frame.id, frame.fin, end)],
                  ret |-> ""]

\* Frame::RstStream
rst_stream_frame(w, frame) ==
    LET c == w.c
        found == get_recv_stream(c, frame.id)
    IN  IF frame.id = 0 THEN [w |-> w, ret |-> "PROTOCOL_VIOLATION"]
        ELSE IF found \in {"STREAM_STATE_ERROR", "STREAM_ID_ERROR"}
        THEN [w |-> w, ret |-> found]
        ELSE IF found = "none" THEN [w |-> w, ret |-> ""]
        ELSE IF ~has_recv(c, frame.id) THEN [w |-> SetConn(w, Panic(c)), ret |-> ""]
        ELSE
        LET rs == c.streams[frame.id].recv
            known == Recv_final_offset(rs)
            rs1 == IF ~Recv_is_closed(rs)
                   THEN [rs EXCEPT !.state = "ResetRecvd",
                                   !.size = frame.final_offset,
                                   !.error_code = frame.error_code]
                   ELSE rs
        IN  IF known # -1 /\ known # frame.final_offset
            THEN [w |-> w, ret |-> "FINAL_OFFSET_ERROR"]
            ELSE [w |-> [w EXCEPT
                          !.c.streams[frame.id].recv = rs1,
                          !.c.data_recvd = @ + SatSub(frame.final_offset, Recv_limit(rs1)),
                          !.c.readable_streams = @ \cup {frame.id},
                          !.x.readable = TRUE,
                          !.c.h_final = FinalSeen(@, frame.id, TRUE, frame.final_offset),
                          !.c.h_past_final =
                              @ \/ PastFinal(c.h_final, frame.id, TRUE, frame.final_offset)],
                  ret |-> ""]

\* Frame::MaxData taking the frame's value as it comes, telling nobody
max_data_frame_plain(w, frame) == [w EXCEPT !.c.max_data = frame.bytes]

\* Frame::MaxData
max_data_frame(w, frame) ==
    LET was_blocked == blocked(w.c)
        w1 == [w EXCEPT !.c.max_data = Max(frame.bytes, @)]
    IN  IF was_blocked /\ ~blocked(w1.c)
        THEN push_writable(w1, Iterate(w1.c.hash_order, w1.c.blocked_streams))
        ELSE w1

\* Frame::MaxStreamData
max_stream_data_frame(w, frame) ==
    IF initiator(frame.id) # w.c.side /\ directionality(frame.id) = "Uni"
    THEN [w |-> w, ret |-> "PROTOCOL_VIOLATION"]
    ELSE IF ~has_send(w.c, frame.id) THEN [w |-> w, ret |-> "PROTOCOL_VIOLATION"]
    ELSE LET ss == w.c.streams[frame.id].send
         IN  IF frame.offset > ss.max_data
             THEN [w |-> [(IF ss.offset = ss.max_data
                           THEN PushEvent(w, Event("StreamWritable", frame.id))
                           ELSE w)
                          EXCEPT !.c.streams[frame.id].send.max_data = frame.offset],
                   ret |-> ""]
             ELSE [w |-> w, ret |-> ""]

\* Frame::MaxStreamId
max_stream_id_frame(w, frame) ==
    LET update == index(frame.id) + 1
        uni == directionality(frame.id) = "Uni"
        limit == IF uni THEN w.c.max_uni ELSE w.c.max_bi
    IN  IF update > limit
        THEN PushEvent([w EXCEPT !.c.max_uni = IF uni THEN update ELSE @,
                                 !.c.max_bi = IF uni THEN @ ELSE update],
                       EventOf("StreamAvailable", directionality(frame.id)))
        ELSE w

\* history: a STOP_SENDING frame, the send half it found, what it returned
\* and the RST_STREAM frames queued before and after it.
Stopped(w, r, frame) ==
    [r EXCEPT !.w.c.h_stop = Append(@,
        [ id |-> frame.id, error_code |-> frame.error_code,
          send |-> IF frame.id \in DOMAIN w.c.streams
                   THEN w.c.streams[frame.id].send
                   ELSE [state |-> "Unknown", offset |-> 0],
          ret |-> r.ret,
          before |-> w.c.pending.rst_stream,
          after |-> r.w.c.pending.rst_stream,
          state |-> IF frame.id \in DOMAIN r.w.c.streams
                    THEN r.w.c.streams[frame.id].send.state ELSE "Unknown" ])]

\* Frame::StopSending that leaves the RST_STREAM out
stop_sending_frame_silent(w, frame) ==
    IF frame.id \notin DOMAIN w.c.streams
       \/ w.c.streams[frame.id].send.state = "Absent"
       \/ w.c.streams[frame.id].send.offset = 0
    THEN Stopped(w, [w |-> w, ret |-> "PROTOCOL_VIOLATION"], frame)
    ELSE Stopped(w,
            [w |-> [w EXCEPT !.c.streams[frame.id].send.state = "ResetSent",
                             !.c.streams[frame.id].send.stop_reason = frame.error_code],
             ret |-> ""],
            frame)

\* Frame::StopSending
stop_sending_frame(w, frame) ==
    IF frame.id \notin DOMAIN w.c.streams
       \/ w.c.streams[frame.id].send.state = "Absent"
       \/ w.c.streams[frame.id].send.offset = 0
    THEN Stopped(w, [w |-> w, ret |-> "PROTOCOL_VIOLATION"], frame)
    ELSE LET w1 == reset(w, frame.id, frame.error_code)
         IN  Stopped(w,
                [w |-> [w1 EXCEPT !.c.streams[frame.id].send.state = "ResetSent",
                                  !.c.streams[frame.id].send.stop_reason = frame.error_code],
                 ret |-> ""],
                frame)

\* streams.finished.drain(..): one StreamFinished event per finished stream
RECURSIVE push_finished(_, _)
push_finished(w, ids) ==
    IF ids = <<>> THEN [w EXCEPT !.c.finished = <<>>]
    ELSE push_finished(PushEvent(w, Event("StreamFinished", Head(ids))), Tail(ids))

\* self.finished.drain(..): one StreamFinished event per finished stream
drain_finished(w) == push_finished(w, w.c.finished)

\* One frame of process_payload.  ret is "" (go on), "closed" for Ok(true),
\* or the transport error returned.
process_frame(w, config, t, number, frame) ==
    CASE frame.ty = "Stream" -> stream_frame(w, frame)
      [] frame.ty = "Ack" ->
            [w |-> drain_finished(on_ack_received(w, config, t, frame)), ret |-> ""]
      [] frame.ty \in {"Padding", "Ping"} -> [w |-> w, ret |-> ""]
      [] frame.ty = "ConnectionClose" ->
            [w |-> PushEvent(w, EventOf("ConnectionLost", "ConnectionClosed")),
             ret |-> "closed"]
      [] frame.ty = "ApplicationClose" ->
            [w |-> PushEvent(w, EventOf("ConnectionLost", "ApplicationClosed")),
             ret |-> "closed"]
      [] frame.ty = "Invalid" -> [w |-> w, ret |-> "FRAME_ENCODING_ERROR"]
      [] frame.ty = "PathChallenge" ->
            [w |-> [w EXCEPT !.c.pending = path_challenge(@, number, frame.token)],
             ret |-> ""]
      [] frame.ty = "PathResponse" -> [w |-> w, ret |-> "UNSOLICITED_PATH_RESPONSE"]
      [] frame.ty = "MaxData" -> [w |-> max_data_frame(w, frame), ret |-> ""]
      [] frame.ty = "MaxStreamData" -> max_stream_data_frame(w, frame)
      [] frame.ty = "MaxStreamId" -> [w |-> max_stream_id_frame(w, frame), ret |-> ""]
      [] frame.ty = "RstStream" -> rst_stream_frame(w, frame)
      [] frame.ty \in {"Blocked", "StreamBlocked", "StreamIdBlocked"} ->
            [w |-> w, ret |-> ""]
      [] frame.ty = "StopSending" -> stop_sending_frame(w, frame)
      [] frame.ty = "NewConnectionId" ->
            \* rejected when the remote connection ID is empty, else ignored
            IF w.c.rem_cid = "" THEN [w |-> w, ret |-> "PROTOCOL_VIOLATION"]
            ELSE [w |-> w, ret |-> ""]

RECURSIVE process_payload(_, _, _, _, _)
\* r is what the frame before returned; rest are the frames after it.
next_frame(r, config, t, number, rest) ==
    IF r.ret # "" THEN r
    ELSE process_payload(r.w, config, t, number, rest)

process_payload(w, config, t, number, frames) ==
    IF frames = <<>> \/ w.c.panicked THEN [w |-> w, ret |-> ""]
    ELSE next_frame(
            process_frame(IF Head(frames).ty # "Ack"
                          THEN [w EXCEPT !.c.permit_ack_only = TRUE] ELSE w,
                          config, t, number, Head(frames)),
            config, t, number, Tail(frames))

\* Does the payload carry a CONNECTION_CLOSE or APPLICATION_CLOSE?
has_close(frames) ==
    \E i \in 1..Len(frames) : frames[i].ty \in {"ConnectionClose", "ApplicationClose"}

\* drive_tls: the transport error for a TLS failure, "" for Ok(()).
drive_tls(c, outcome) ==
    LET p == process_new_packets(c, outcome)
    IN  [c |-> p.c,
         err |-> IF p.ok THEN ""
                 ELSE IF outcome = "alert" THEN "TLS_FATAL_ALERT_RECEIVED"
                 ELSE "PROTOCOL_VIOLATION"]

\* The state moves on: a State other than Handshake carries no handshake data.
SetState(c, state) ==
    IF state = "Handshake" THEN [c EXCEPT !.state = state]
    ELSE [c EXCEPT !.state = state, !.clienthello_packet = -1, !.rem_cid_set = FALSE]

\* State Established, after the frames and drive_tls: d is [c, err].
after_tls(w, d, ret) ==
    IF d.err # "" THEN [w |-> SetConn(w, d.c), state |-> "Established", err |-> d.err]
    ELSE [w |-> SetConn(w, d.c),
          state |-> IF ret = "closed" THEN "Draining" ELSE "Established",
          err |-> ""]

\* State Established: r is what process_payload returned.
after_payload(r, packet) ==
    IF r.w.c.panicked THEN [w |-> r.w, state |-> "Established", err |-> ""]
    ELSE IF r.ret \notin {"", "closed"}
    THEN [w |-> r.w, state |-> "Established", err |-> r.ret]
    ELSE after_tls(r.w, drive_tls(r.w.c, packet.tls), r.ret)

\* handle_connected_inner.  While it runs the connection's own state field is
\* taken; state is the previous state, passed by value.  The result is
\* [w, state, err]: Ok(state) when err = "", else Err(err).
handle_connected_inner(w, config, t, number, packet, state) ==
    LET c == w.c
        same == [w |-> w, state |-> state, err |-> ""]
    IN  CASE state = "Handshake" ->
             (CASE packet.ty = "Retry" ->
                    IF c.clienthello_packet = -1
                    THEN [w |-> w, state |-> state, err |-> "PROTOCOL_VIOLATION"]
                    ELSE IF c.clienthello_packet > number THEN same
                    ELSE \* discard transport state, resend the ClientHello
                         LET new == connect(Connection_new(c.side, config), packet.tls_out)
                             hist == [new EXCEPT
                                        !.clienthello_packet = c.clienthello_packet,
                                        !.rem_cid_set = c.rem_cid_set,
                                        !.rem_cid = packet.src_cid,
                                        !.h_sent = c.h_sent, !.h_tx = c.h_tx,
                                        !.h_lost = c.h_lost, !.h_debits = c.h_debits,
                                        !.h_emit = c.h_emit, !.h_dup = c.h_dup,
                                        !.h_intent = c.h_intent,
                                        !.h_acked = c.h_acked,
                                        !.h_ack_moved = c.h_ack_moved,
                                        !.h_final = c.h_final,
                                        !.h_past_final = c.h_past_final,
                                        !.h_vn = c.h_vn,
                                        !.h_retry = c.h_retry,
                                        !.h_idle_from = c.h_idle_from]
                         IN  [w |-> SetConn(w, transmit_handshake(hist, packet.tls_out)),
                              state |-> "Handshake", err |-> ""]
                [] packet.ty = "Handshake" ->
                    handle_handshake_packet(w, config, t, number, packet)
                [] packet.ty = "VersionNegotiate" ->
                    IF packet.vn = "malformed"
                    THEN [w |-> w, state |-> state, err |-> "PROTOCOL_VIOLATION"]
                    ELSE IF packet.vn = "supported" THEN same
                    ELSE [w |-> w, state |-> state, err |-> "VersionMismatch"]
                [] OTHER -> same)   \* Initial, 0-RTT, Short: dropped
          [] state = "Established" ->
              IF packet.ty # "Short" THEN same
              ELSE IF c.awaiting_handshake /\ c.side # "Client"
              THEN [w |-> SetConn(w, Panic(c)), state |-> state, err |-> ""]
              ELSE after_payload(
                        process_payload(
                            IF c.awaiting_handshake
                            THEN SetConn(w, handshake_cleanup(c, config)) ELSE w,
                            config, t, number, packet.frames),
                        packet)
          [] state \in {"HandshakeFailed", "Closed"} ->
              IF has_close(packet.frames)
              THEN [w |-> w, state |-> "Draining", err |-> ""]
              ELSE same
          [] OTHER -> same   \* Draining, Drained

(***************************************************************************)
(* Packet ingress: decrypt_packet, handle_packet, handle_decode.           *)
(* A received packet is a record: ty (header form), number (the truncated  *)
(* one-byte packet number), key_phase, epoch (the number of key updates    *)
(* behind the 1-RTT key that sealed a short-header packet), auth (the      *)
(* packet is sealed and untampered), reset (the payload ends with the      *)
(* stateless reset token), frames, and the inputs of the TLS session.      *)
(* The connection's 1-RTT keys are told apart by their epoch: crypto_epoch *)
(* for the current key, prev_crypto_epoch for the retained one.            *)
(***************************************************************************)
\* PacketNumber::U8(x).expand(prev)
expand(x, prev) ==
    LET t == prev + 1
        d == 256
    IN  IF t > d \div 2 THEN x + d * ((t + d \div 2 - x) \div d) ELSE x % d

\* Crypto::decrypt: the AEAD opens a short-header packet under the 1-RTT key
\* of the epoch that sealed it, and a long-header packet under the
\* handshake key.
Opens(packet, epoch) == packet.auth /\ (packet.ty # "Short" \/ packet.epoch = epoch)

\* history: what decrypt_packet was given and what it answered; c is the
\* connection before.
Decrypted(c, r, packet, epoch) ==
    [r EXCEPT !.c.h_decrypt =
        [ res |-> r.res, number |-> r.number, ty |-> packet.ty,
          key_phase |-> packet.key_phase, sealed |-> packet.epoch,
          auth |-> packet.auth, epoch |-> epoch,
          rx_packet |-> c.rx_packet, local_key_phase |-> c.key_phase,
          crypto |-> c.crypto_epoch, boundary |-> c.prev_crypto,
          prev_crypto |-> c.prev_crypto_epoch,
          nonack |-> \E i \in DOMAIN packet.frames : packet.frames[i].ty # "Ack" ]]

\* decrypt_packet taking the highest received number for the boundary
decrypt_packet_early(c, handshake, packet) ==
    LET usable == \/ packet.ty = "Short" /\ ~handshake
                  \/ packet.ty \in {"Initial", "Handshake", "ZeroRtt"} /\ handshake
        key_phase == IF packet.ty = "Short" THEN packet.key_phase ELSE FALSE
        number == expand(packet.number, c.rx_packet)
        \* the key phase bit differs from the local key phase
        updated ==
            IF number <= c.rx_packet THEN [c |-> c, res |-> "illegal", number |-> number]
            ELSE IF ~c.crypto THEN [c |-> Panic(c), res |-> "failed", number |-> number]
            ELSE IF ~Opens(packet, c.crypto_epoch + 1)
            THEN [c |-> c, res |-> "failed", number |-> number]
            ELSE [c |-> [c EXCEPT !.prev_crypto = c.rx_packet,
                                  !.prev_crypto_epoch = c.crypto_epoch,
                                  !.crypto_epoch = @ + 1,
                                  !.key_phase = ~@],
                  res |-> "ok", number |-> number]
        \* the key the match selects: -1 stands for the handshake key
        retained == ~handshake /\ c.prev_crypto # -1 /\ number < c.prev_crypto
        epoch == IF handshake THEN -1
                 ELSE IF retained THEN c.prev_crypto_epoch ELSE c.crypto_epoch
        opened ==
            IF ~handshake /\ ~retained /\ ~c.crypto
            THEN [c |-> Panic(c), res |-> "failed", number |-> number]
            ELSE IF ~Opens(packet, epoch)
            THEN [c |-> c, res |-> "failed", number |-> number]
            ELSE [c |-> c, res |-> "ok", number |-> number]
    IN  IF ~usable THEN [c |-> c, res |-> "failed", number |-> 0]
        ELSE IF key_phase # c.key_phase
        THEN Decrypted(c, updated, packet, c.crypto_epoch + 1)
        ELSE Decrypted(c, opened, packet, epoch)

\* decrypt_packet: [c, res, number]; res is "ok", "illegal" for
\* Err(Some(PROTOCOL_VIOLATION)), "failed" for Err(None).
decrypt_packet(c, handshake, packet) ==
    LET usable == \/ packet.ty = "Short" /\ ~handshake
                  \/ packet.ty \in {"Initial", "Handshake", "ZeroRtt"} /\ handshake
        key_phase == IF packet.ty = "Short" THEN packet.key_phase ELSE FALSE
        number == expand(packet.number, c.rx_packet)
        \* the key phase bit differs from the local key phase
        updated ==
            IF number <= c.rx_packet THEN [c |-> c, res |-> "illegal", number |-> number]
            ELSE IF ~c.crypto THEN [c |-> Panic(c), res |-> "failed", number |-> number]
            ELSE IF ~Opens(packet, c.crypto_epoch + 1)
            THEN [c |-> c, res |-> "failed", number |-> number]
            ELSE [c |-> [c EXCEPT !.prev_crypto = number,
                                  !.prev_crypto_epoch = c.crypto_epoch,
                                  !.crypto_epoch = @ + 1,
                                  !.key_phase = ~@],
                  res |-> "ok", number |-> number]
        \* the key the match selects: -1 stands for the handshake key
        retained == ~handshake /\ c.prev_crypto # -1 /\ number < c.prev_crypto
        epoch == IF handshake THEN -1
                 ELSE IF retained THEN c.prev_crypto_epoch ELSE c.crypto_epoch
        opened ==
            IF ~handshake /\ ~retained /\ ~c.crypto
            THEN [c |-> Panic(c), res |-> "failed", number |-> number]
            ELSE IF ~Opens(packet, epoch)
            THEN [c |-> c, res |-> "failed", number |-> number]
            ELSE [c |-> c, res |-> "ok", number |-> number]
    IN  IF ~usable THEN [c |-> c, res |-> "failed", number |-> 0]
        ELSE IF key_phase # c.key_phase
        THEN Decrypted(c, updated, packet, c.crypto_epoch + 1)
        ELSE Decrypted(c, opened, packet, epoch)

State_is_closed(state) == state \in {"HandshakeFailed", "Closed", "Draining", "Drained"}

\* the stateless reset branch leaving the Close timer running
stateless_reset_lingering(w) ==
    IF w.c.state = "None" THEN SetConn(w, Panic(w.c))
    ELSE IF w.c.state = "Drained" THEN w
    ELSE LET w1 == PushIo(PushIo(w, IoTimerStop("LossDetection")), IoTimerStop("Idle"))
             w2 == PushEvent(w1, EventOf("ConnectionLost", "Reset"))
         IN  [w2 EXCEPT !.c = [SetState(w2.c, "Drained") EXCEPT
                                !.h_intent = Intent("stop", "stateless_reset")]]

\* handle_packet, the stateless reset branch
stateless_reset(w) ==
    IF w.c.state = "None" THEN SetConn(w, Panic(w.c))
    ELSE IF w.c.state = "Drained" THEN w
    ELSE LET w1 == PushIo(PushIo(PushIo(w, IoTimerStop("LossDetection")),
                                 IoTimerStop("Close")), IoTimerStop("Idle"))
             w2 == PushEvent(w1, EventOf("ConnectionLost", "Reset"))
         IN  [w2 EXCEPT !.c = [SetState(w2.c, "Drained") EXCEPT
                                !.h_intent = Intent("stop", "stateless_reset")]]

\* finish_packet telling the application nothing about the error
finish_packet_mute(r, config, t, was_handshake, was_closed) ==
    LET state == IF r.err = "" THEN r.state
                 ELSE IF r.err = "VersionMismatch" THEN "Draining"
                 ELSE IF was_handshake THEN "HandshakeFailed" ELSE "Closed"
        w1 == r.w
        w2 == IF ~was_closed /\ State_is_closed(state) THEN close_common(w1, config, t)
              ELSE w1
        w3 == CASE state = "HandshakeFailed" ->
                    LET c1 == get_tx_number(w2.c)
                        n == c1.largest_sent_packet
                        w4 == [w2 EXCEPT
                                !.c = reset_idle_timeout(Emit(c1, n), config, t),
                                !.x.incoming_handshakes =
                                    IF ~was_closed /\ w2.c.side = "Server" THEN @ - 1 ELSE @]
                    IN  IF w2.x.debug_assertions /\ n >= 64
                        THEN SetConn(w2, Panic(c1))
                        ELSE PushIo(w4, IoTransmit("Handshake", n % 256))
                [] state = "Closed" ->
                    LET c1 == make_close(w2.c)
                    IN  PushIo(SetConn(w2, reset_idle_timeout(c1, config, t)),
                               IoTransmit("Short", c1.largest_sent_packet))
                [] OTHER -> w2
    IN  [w3 EXCEPT !.c = [SetState(w3.c, state) EXCEPT !.h_err = r.err],
                   !.x.dirty = TRUE]

\* handle_packet after the packet was decrypted or rejected: the state
\* transitions for error cases, close_common, the CONNECTION_CLOSE reply.
\* r is [w, state, err].
finish_packet(r, config, t, was_handshake, was_closed) ==
    LET state == IF r.err = "" THEN r.state
                 ELSE IF r.err = "VersionMismatch" THEN "Draining"
                 ELSE IF was_handshake THEN "HandshakeFailed" ELSE "Closed"
        w1 == IF r.err = "" THEN r.w ELSE PushEvent(r.w, EventOf("ConnectionLost", r.err))
        w2 == IF ~was_closed /\ State_is_closed(state) THEN close_common(w1, config, t)
              ELSE w1
        w3 == CASE state = "HandshakeFailed" ->
                    LET c1 == get_tx_number(w2.c)
                        n == c1.largest_sent_packet
                        w4 == [w2 EXCEPT
                                !.c = reset_idle_timeout(Emit(c1, n), config, t),
                                !.x.incoming_handshakes =
                                    IF ~was_closed /\ w2.c.side = "Server" THEN @ - 1 ELSE @]
                    IN  IF w2.x.debug_assertions /\ n >= 64
                        THEN SetConn(w2, Panic(c1))
                        ELSE PushIo(w4, IoTransmit("Handshake", n % 256))
                [] state = "Closed" ->
                    LET c1 == make_close(w2.c)
                    IN  PushIo(SetConn(w2, reset_idle_timeout(c1, config, t)),
                               IoTransmit("Short", c1.largest_sent_packet))
                [] OTHER -> w2
    IN  [w3 EXCEPT !.c = [SetState(w3.c, state) EXCEPT !.h_err = r.err],
                   !.x.dirty = TRUE]

\* handle_packet, the end: r is the result [w, state, err] of the match on
\* decrypt_packet's result.
packet_done(r, config, t, prev_state, outcome) ==
    IF r.w.c.panicked THEN [w |-> r.w, outcome |-> "panic"]
    ELSE [w |-> finish_packet(r, config, t, prev_state = "Handshake",
                              State_is_closed(prev_state)),
          outcome |-> outcome]

\* handle_packet, the match on decrypt_packet's result d.
decrypted(w, config, t, packet, prev_state, d) ==
    CASE d.c.panicked ->
            [w |-> SetConn(w, d.c), outcome |-> "panic"]
      [] d.res = "ok" ->
            packet_done(
                handle_connected_inner(
                    SetConn(w, IF ~State_is_closed(prev_state)
                               THEN on_packet_authenticated(d.c, config, t, d.number)
                               ELSE d.c),
                    config, t, d.number, packet, prev_state),
                config, t, prev_state, "ok")
      [] d.res = "illegal" ->
            packet_done([w |-> SetConn(w, d.c), state |-> prev_state,
                         err |-> "PROTOCOL_VIOLATION"],
                        config, t, prev_state, "illegal")
      [] OTHER ->
            \* failed to authenticate packet
            packet_done([w |-> SetConn(w, d.c), state |-> "Established", err |-> ""],
                        config, t, prev_state, "failed")

\* handle_packet, the first match: in state Handshake a Handshake packet
\* settles the remote connection ID.
take_state(c, packet) ==
    IF c.state = "Handshake" /\ ~c.rem_cid_set /\ packet.ty = "Handshake"
    THEN [c EXCEPT !.rem_cid = packet.src_cid, !.rem_cid_set = TRUE] ELSE c

\* Connection::handle_packet.  The result is [w, outcome]; outcome tells how
\* the packet fared: "reset", "failed" (not authenticated), "illegal" (illegal
\* key update), "ok" (authenticated and processed), "panic".
handle_packet(w, config, t, packet) ==
    IF w.c.params.stateless_reset_token /\ packet.reset
    THEN [w |-> stateless_reset(w), outcome |-> "reset"]
    ELSE IF w.c.state = "None" THEN [w |-> SetConn(w, Panic(w.c)), outcome |-> "panic"]
    ELSE decrypted(SetConn(w, take_state(w.c, packet)), config, t, packet, w.c.state,
                   decrypt_packet(take_state(w.c, packet), w.c.state = "Handshake",
                                  packet))

\* PartialDecode::is_handshake(): the packet is protected with handshake keys.
is_handshake(packet) == packet.ty # "Short"

\* Connection::handle_decode: pick the header-protection key, finish decoding.
handle_decode(w, config, t, packet) ==
    IF ~is_handshake(packet) /\ ~w.c.crypto
    THEN [w |-> SetConn(w, Panic(w.c)), outcome |-> "panic"]
    ELSE IF ~packet.decodable THEN [w |-> w, outcome |-> "undecodable"]
    ELSE handle_packet(w, config, t, packet)

(***************************************************************************)
(* Packet egress: next_packet.  A packet under construction is             *)
(* b = [c, pb, sent, len, ok]: the connection, the pending bundle the      *)
(* frames are taken from, the frames put on the packet so far, the buffer  *)
(* length, and ok = FALSE once an unwrap() failed.                         *)
(***************************************************************************)
\* RST_STREAM frames, popped from the back of pending.rst_stream
RECURSIVE fill_rst_stream(_, _)
fill_rst_stream(b, max_size) ==
    IF ~(b.len + 19 < max_size) \/ b.pb.rst_stream = <<>> \/ ~b.ok THEN b
    ELSE LET n == Len(b.pb.rst_stream)
             x == b.pb.rst_stream[n]
             b1 == [b EXCEPT !.pb.rst_stream = SubSeq(@, 1, n - 1)]
         IN  IF x[1] \notin DOMAIN b.c.streams THEN fill_rst_stream(b1, max_size)
             ELSE IF ~has_send(b.c, x[1]) THEN [b1 EXCEPT !.ok = FALSE]
             ELSE fill_rst_stream(
                    [b1 EXCEPT !.sent.rst_stream = Append(@, x), !.len = @ + 5],
                    max_size)

\* STOP_SENDING frames
RECURSIVE fill_stop_sending(_, _)
fill_stop_sending(b, max_size) ==
    IF ~(b.len + 11 < max_size) \/ b.pb.stop_sending = <<>> \/ ~b.ok THEN b
    ELSE LET n == Len(b.pb.stop_sending)
             x == b.pb.stop_sending[n]
             b1 == [b EXCEPT !.pb.stop_sending = SubSeq(@, 1, n - 1)]
         IN  IF x[1] \notin DOMAIN b.c.streams THEN fill_stop_sending(b1, max_size)
             ELSE IF ~has_recv(b.c, x[1]) THEN [b1 EXCEPT !.ok = FALSE]
             ELSE IF Recv_is_finished(b.c.streams[x[1]].recv)
             THEN fill_stop_sending(b1, max_size)
             ELSE fill_stop_sending(
                    [b1 EXCEPT !.sent.stop_sending = Append(@, x), !.len = @ + 4],
                    max_size)

\* MAX_STREAM_DATA frames: each turn takes the first stream the hash set
\* pending.max_stream_data yields.
RECURSIVE fill_max_stream_data(_, _)
fill_max_stream_data(b, max_size) ==
    IF ~(b.len + 17 < max_size) \/ b.pb.max_stream_data = {} \/ ~b.ok THEN b
    ELSE LET id == Head(Iterate(b.c.hash_order, b.pb.max_stream_data))
             b1 == [b EXCEPT !.pb.max_stream_data = @ \ {id}]
         IN  IF id \notin DOMAIN b.c.streams THEN fill_max_stream_data(b1, max_size)
             ELSE IF ~has_recv(b.c, id) THEN [b1 EXCEPT !.ok = FALSE]
             ELSE IF Recv_is_finished(b.c.streams[id].recv)
             THEN fill_max_stream_data(b1, max_size)
             ELSE fill_max_stream_data(
                    [b1 EXCEPT !.sent.max_stream_data = @ \cup {id}, !.len = @ + 3],
                    max_size)

\* STREAM frames, taken from the front of pending.stream; a frame that does
\* not fit is split and its rest put back at the front.
RECURSIVE fill_stream(_, _)
fill_stream(b, max_size) ==
    IF ~(b.len + 25 < max_size) \/ b.pb.stream = <<>> \/ ~b.ok THEN b
    ELSE LET stream == Head(b.pb.stream)
             b1 == [b EXCEPT !.pb.stream = Tail(@)]
             len == Min(stream.len, max_size - b.len - 25)
             rest == stream.len - len
             fin == stream.fin /\ rest = 0
             b2 == [b1 EXCEPT
                     !.sent.stream = Append(@, StreamFrame(stream.id, stream.offset, len, fin)),
                     !.len = @ + StreamFrameOverhead + len,
                     !.pb.stream =
                        IF rest # 0
                        THEN <<StreamFrame(stream.id, stream.offset + len, rest, stream.fin)>>
                                \o @
                        ELSE @]
         IN  IF stream.id # 0 /\ stream.id \notin DOMAIN b.c.streams
             THEN fill_stream(b1, max_size)
             ELSE IF stream.id # 0 /\ ~has_send(b.c, stream.id) THEN [b1 EXCEPT !.ok = FALSE]
             ELSE IF stream.id # 0 /\ Send_was_reset(b.c.streams[stream.id].send)
             THEN fill_stream(b1, max_size)
             ELSE fill_stream(b2, max_size)

\* PING
fill_ping(b) ==
    IF b.pb.ping THEN [b EXCEPT !.pb.ping = FALSE, !.sent.ping = TRUE, !.len = @ + 1]
    ELSE b

\* ACK: the pending acknowledgements are written, and stay pending
fill_acks(b) ==
    IF b.c.pending_acks # {} THEN [b EXCEPT !.len = @ + AckLen(b.c.pending_acks)]
    ELSE b

\* PATH_RESPONSE
fill_path_response(b, max_size) ==
    IF b.len + 9 < max_size /\ b.pb.path_response # <<>>
    THEN [b EXCEPT !.pb.path_response = <<>>, !.len = @ + 9]
    ELSE b

\* MAX_DATA
fill_max_data(b, max_size) ==
    IF b.pb.max_data /\ b.len + 9 < max_size
    THEN [b EXCEPT !.pb.max_data = FALSE, !.sent.max_data = TRUE, !.len = @ + 2]
    ELSE b

\* MAX_STREAM_ID, unidirectional
fill_max_uni_stream_id(b, max_size) ==
    IF b.pb.max_uni_stream_id /\ b.len + 9 < max_size
    THEN [b EXCEPT !.pb.max_uni_stream_id = FALSE,
                   !.sent.max_uni_stream_id = TRUE, !.len = @ + 2]
    ELSE b

\* MAX_STREAM_ID, bidirectional
fill_max_bi_stream_id(b, max_size) ==
    IF b.pb.max_bi_stream_id /\ b.len + 9 < max_size
    THEN [b EXCEPT !.pb.max_bi_stream_id = FALSE,
                   !.sent.max_bi_stream_id = TRUE, !.len = @ + 2]
    ELSE b

\* The frames of one packet, in the order next_packet writes them.
fill_packet(c, pending, header_len, max_size) ==
    fill_stream(
        fill_max_bi_stream_id(
            fill_max_uni_stream_id(
                fill_max_stream_data(
                    fill_max_data(
                        fill_stop_sending(
                            fill_rst_stream(
                                fill_path_response(
                                    fill_acks(fill_ping(
                                        [c |-> c, pb |-> pending,
                                         sent |-> Retransmits_default,
                                         len |-> header_len, ok |-> TRUE])),
                                    max_size),
                                max_size),
                            max_size),
                        max_size),
                    max_size),
                max_size),
            max_size),
        max_size)

\* next_packet decides whether a packet is to be sent, and of which kind:
\* [send, handshake, ty, panic]; send = FALSE for None.
packet_kind(c) ==
    LET established == c.state = "Established"
        handshake ==
            /\ ~established \/ c.awaiting_handshake
            /\ \/ ~Retransmits_is_empty(c.handshake_pending)
               \/ c.pending_acks # {} /\ c.permit_ack_only
        initial == /\ c.side = "Client"
                   /\ c.handshake_pending.stream # <<>>
                   /\ Head(c.handshake_pending.stream).offset = 0
        kind(send, panic) ==
            [send |-> send, handshake |-> handshake, panic |-> panic,
             ty |-> IF ~handshake THEN "Short"
                    ELSE IF initial THEN "Initial" ELSE "Handshake"]
    IN  IF c.state = "None" THEN kind(FALSE, TRUE)
        ELSE IF c.state \notin {"Handshake", "Established"} THEN kind(FALSE, FALSE)
        ELSE IF handshake THEN kind(TRUE, FALSE)
        ELSE IF ~established THEN kind(FALSE, FALSE)
        ELSE IF congestion_blocked(c)
                \/ (Retransmits_is_empty(c.pending)
                    /\ (~c.permit_ack_only \/ c.pending_acks = {}))
        THEN kind(FALSE, FALSE)
        ELSE kind(TRUE, ~c.crypto)

\* history: a packet next_packet built from the connection c: its number,
\* the acknowledgements and the frames it carries, what c held, and the
\* STREAM frames queued before and after.
Built(after, c, k, pending, b) ==
    [after EXCEPT !.h_built = Append(@,
        [number |-> c.largest_sent_packet,
         ty |-> k.ty,
         acks |-> c.pending_acks,
         sent |-> b.sent,
         path_response |-> pending.path_response # <<>> /\ b.pb.path_response = <<>>,
         pending |-> ~Retransmits_is_empty(pending),
         queue |-> pending.stream,
         rest |-> b.pb.stream,
         permit_ack_only |-> c.permit_ack_only,
         permitted |-> after.permit_ack_only])]

\* next_packet once the frames b were written under header k with the new
\* packet number: padding, encryption, on_packet_sent.
finish_next_packet(c, config, t, k, pending, b) ==
    LET number == c.largest_sent_packet
        padded == IF k.ty = "Initial" /\ b.len < MIN_INITIAL_SIZE - AEAD_TAG_SIZE
                  THEN MIN_INITIAL_SIZE - AEAD_TAG_SIZE ELSE b.len
        buf_len == padded + AEAD_TAG_SIZE
        acks == c.pending_acks
        c3 == [c EXCEPT
                !.handshake_pending = IF k.handshake THEN b.pb ELSE @,
                !.pending = IF k.handshake THEN @ ELSE b.pb,
                !.permit_ack_only = @ /\ acks = {}]
    IN  IF ~b.ok THEN [c |-> Panic(c), some |-> FALSE, ty |-> "-", number |-> 0]
        ELSE [c |-> Built(Emit(on_packet_sent(c3, config, t, number,
                                  SentPacket(t, IF Retransmits_is_empty(pending) THEN 0
                                                ELSE buf_len,
                                             k.handshake, acks, b.sent)),
                               number),
                          c, k, pending, b),
              some |-> TRUE, ty |-> k.ty, number |-> number]

\* next_packet from the point where the packet number is taken; c carries
\* the new number.
build_packet(c, config, t, k, pending) ==
    finish_next_packet(
        IF k.ty = "Initial" /\ c.state = "Handshake" /\ c.clienthello_packet = -1
        THEN [c EXCEPT !.clienthello_packet = c.largest_sent_packet] ELSE c,
        config, t, k, pending,
        fill_packet(
            IF k.ty = "Initial" /\ c.state = "Handshake" /\ c.clienthello_packet = -1
            THEN [c EXCEPT !.clienthello_packet = c.largest_sent_packet] ELSE c,
            pending, HeaderLen(k.ty), c.mtu - AEAD_TAG_SIZE))

\* next_packet for the kind k = packet_kind(c).
next_packet_of(c, config, t, k) ==
    IF k.panic
    THEN [c |-> Panic(IF k.send THEN get_tx_number(c) ELSE c),
          some |-> FALSE, ty |-> "-", number |-> 0]
    ELSE IF ~k.send THEN [c |-> c, some |-> FALSE, ty |-> "-", number |-> 0]
    ELSE build_packet(get_tx_number(c), config, t, k,
                      IF k.handshake THEN c.handshake_pending ELSE c.pending)

\* Connection::next_packet: [c, some, ty, number]; some = FALSE for None.
next_packet(c, config, t) == next_packet_of(c, config, t, packet_kind(c))

(***************************************************************************)
(* Application calls on a connection: close, open, write, finish, read,    *)
(* stop_sending.                                                           *)
(***************************************************************************)
\* Connection::close that sends its CONNECTION_CLOSE on every call.
close_again(w, config, t) ==
    IF w.c.state = "None" \/ w.c.state = "Drained" THEN SetConn(w, Panic(w.c))
    ELSE
    LET w1 == close_common(w, config, t)
        c1 == make_close(w1.c)
        w2 == [PushIo(SetConn(w1, reset_idle_timeout(c1, config, t)),
                      IoTransmit("Short", c1.largest_sent_packet))
                EXCEPT !.x.dirty = TRUE]
        state == CASE w.c.state = "Handshake" -> "HandshakeFailed"
                   [] w.c.state = "Established" -> "Closed"
                   [] OTHER -> w.c.state
    IN  [w2 EXCEPT !.c = [SetState(w2.c, state) EXCEPT !.app_closed = TRUE]]

\* Connection::close
close(w, config, t) ==
    IF w.c.state = "None" \/ w.c.state = "Drained" THEN SetConn(w, Panic(w.c))
    ELSE
    LET was_closed == State_is_closed(w.c.state)
        w1 == close_common(w, config, t)
        c1 == make_close(w1.c)
        w2 == [PushIo(SetConn(w1, reset_idle_timeout(c1, config, t)),
                      IoTransmit("Short", c1.largest_sent_packet))
                EXCEPT !.x.dirty = TRUE]
        w3 == IF ~was_closed THEN w2 ELSE w
        state == CASE w.c.state = "Handshake" -> "HandshakeFailed"
                   [] w.c.state = "Established" -> "Closed"
                   [] OTHER -> w.c.state
    IN  [w3 EXCEPT !.c = [SetState(w3.c, state) EXCEPT !.app_closed = TRUE]]

\* Connection::open that hands out the same index again
open_repeating(c, config, direction) ==
    IF direction = "Uni" /\ c.next_uni < c.max_uni
    THEN LET id == StreamId_new(c.side, "Uni", c.next_uni)
             stream == [Stream_send_only EXCEPT
                          !.send.max_data = c.params.initial_max_stream_data_uni]
         IN  [c |-> [c EXCEPT !.streams = With(@, id, stream)], id |-> id]
    ELSE IF direction = "Bi" /\ c.next_bi < c.max_bi
    THEN LET id == StreamId_new(c.side, "Bi", c.next_bi)
             stream == [Stream_new_bi(config.stream_receive_window) EXCEPT
                          !.send.max_data = c.params.initial_max_stream_data_bidi_remote]
         IN  [c |-> [c EXCEPT !.streams = With(@, id, stream)], id |-> id]
    ELSE [c |-> c, id |-> -1]

\* Connection::open: [c, id]; id = -1 for None.
open(c, config, direction) ==
    IF direction = "Uni" /\ c.next_uni < c.max_uni
    THEN LET id == StreamId_new(c.side, "Uni", c.next_uni)
             stream == [Stream_send_only EXCEPT
                          !.send.max_data = c.params.initial_max_stream_data_uni]
         IN  IF id \in DOMAIN c.streams THEN [c |-> Panic(c), id |-> -1]
             ELSE [c |-> [c EXCEPT !.next_uni = @ + 1, !.streams = With(@, id, stream)],
                   id |-> id]
    ELSE IF direction = "Bi" /\ c.next_bi < c.max_bi
    THEN LET id == StreamId_new(c.side, "Bi", c.next_bi)
             stream == [Stream_new_bi(config.stream_receive_window) EXCEPT
                          !.send.max_data = c.params.initial_max_stream_data_bidi_remote]
         IN  IF id \in DOMAIN c.streams THEN [c |-> Panic(c), id |-> -1]
             ELSE [c |-> [c EXCEPT !.next_bi = @ + 1, !.streams = With(@, id, stream)],
                   id |-> id]
    ELSE [c |-> c, id |-> -1]

\* Send::write_budget: "Stopped" (the stop reason is taken), "Blocked", or
\* the budget.  An offset beyond max_data underflows the subtraction.
write_budget(ss) ==
    IF Send_was_reset(ss) /\ ss.stop_reason # -1
    THEN [ss |-> [ss EXCEPT !.stop_reason = -1], res |-> "Stopped", budget |-> 0]
    ELSE IF ss.max_data < ss.offset THEN [ss |-> ss, res |-> "Overflow", budget |-> 0]
    ELSE IF ss.max_data - ss.offset = 0 THEN [ss |-> ss, res |-> "Blocked", budget |-> 0]
    ELSE [ss |-> ss, res |-> "Ok", budget |-> ss.max_data - ss.offset]

\* Connection::write queueing all it was given, whatever the budgets
write_unclipped(w, config, stream, len) ==
    LET c == w.c
        b == write_budget(c.streams[stream].send)
        c1 == [c EXCEPT !.streams[stream].send = b.ss]
    IN  IF ~(directionality(stream) = "Bi" \/ initiator(stream) = c.side) \/ c.state = "None"
        THEN [w |-> SetConn(w, Panic(c)), res |-> "panic", n |-> 0]
        ELSE IF State_is_closed(c.state) THEN [w |-> w, res |-> "Blocked", n |-> 0]
        ELSE IF blocked(c)
        THEN [w |-> [w EXCEPT !.c.blocked_streams = @ \cup {stream}],
              res |-> "Blocked", n |-> 0]
        ELSE IF ~has_send(c, stream) \/ b.res = "Overflow"
        THEN [w |-> SetConn(w, Panic(c)), res |-> "panic", n |-> 0]
        ELSE IF b.res = "Stopped"
        THEN [w |-> SetConn(w, maybe_cleanup(c1, config, stream)), res |-> "Stopped",
              n |-> 0]
        ELSE IF b.res = "Blocked" THEN [w |-> w, res |-> "Blocked", n |-> 0]
        ELSE [w |-> [w EXCEPT !.c = transmit(c, stream, len), !.x.dirty = TRUE],
              res |-> "Ok", n |-> len]

\* Connection::write that forgets which stream it refused
write_unlisted(w, config, stream, len) ==
    LET c == w.c
        b == write_budget(c.streams[stream].send)
        c1 == [c EXCEPT !.streams[stream].send = b.ss]
        conn_budget == c.max_data - c.data_sent
        n == Min(Min(conn_budget, b.budget), len)
    IN  IF ~(directionality(stream) = "Bi" \/ initiator(stream) = c.side) \/ c.state = "None"
        THEN [w |-> SetConn(w, Panic(c)), res |-> "panic", n |-> 0]
        ELSE IF State_is_closed(c.state) \/ blocked(c)
        THEN [w |-> w, res |-> "Blocked", n |-> 0]
        ELSE IF ~has_send(c, stream) \/ b.res = "Overflow"
        THEN [w |-> SetConn(w, Panic(c)), res |-> "panic", n |-> 0]
        ELSE IF b.res = "Stopped"
        THEN [w |-> SetConn(w, maybe_cleanup(c1, config, stream)), res |-> "Stopped",
              n |-> 0]
        ELSE IF b.res = "Blocked" THEN [w |-> w, res |-> "Blocked", n |-> 0]
        ELSE [w |-> [w EXCEPT !.c = transmit(c, stream, n), !.x.dirty = TRUE],
              res |-> "Ok", n |-> n]

\* Connection::write of len bytes: [w, res, n].
write(w, config, stream, len) ==
    LET c == w.c
        b == write_budget(c.streams[stream].send)
        c1 == [c EXCEPT !.streams[stream].send = b.ss]
        conn_budget == c.max_data - c.data_sent
        n == Min(Min(conn_budget, b.budget), len)
    IN  IF ~(directionality(stream) = "Bi" \/ initiator(stream) = c.side) \/ c.state = "None"
        THEN [w |-> SetConn(w, Panic(c)), res |-> "panic", n |-> 0]
        ELSE IF State_is_closed(c.state) THEN [w |-> w, res |-> "Blocked", n |-> 0]
        ELSE IF blocked(c)
        THEN [w |-> [w EXCEPT !.c.blocked_streams = @ \cup {stream}],
              res |-> "Blocked", n |-> 0]
        ELSE IF ~has_send(c, stream) \/ b.res = "Overflow"
        THEN [w |-> SetConn(w, Panic(c)), res |-> "panic", n |-> 0]
        ELSE IF b.res = "Stopped"
        THEN [w |-> SetConn(w, maybe_cleanup(c1, config, stream)), res |-> "Stopped",
              n |-> 0]
        ELSE IF b.res = "Blocked" THEN [w |-> w, res |-> "Blocked", n |-> 0]
        ELSE [w |-> [w EXCEPT !.c = transmit(c, stream, n), !.x.dirty = TRUE],
              res |-> "Ok", n |-> n]

\* Connection::finish that always queues a new empty frame
finish_appending(c, id) ==
    IF ~has_send(c, id) \/ c.streams[id].send.state # "Ready" THEN Panic(c)
    ELSE [c EXCEPT !.streams[id].send.state = "DataSent",
                   !.pending.stream =
                        Append(@, StreamFrame(id, c.streams[id].send.offset, 0, TRUE))]

\* Connection::finish
finish(c, id) ==
    IF ~has_send(c, id) \/ c.streams[id].send.state # "Ready" THEN Panic(c)
    ELSE LET ss == c.streams[id].send
             hits == {i \in 1..Len(c.pending.stream) :
                        /\ c.pending.stream[i].id = id
                        /\ c.pending.stream[i].offset + c.pending.stream[i].len = ss.offset}
             c1 == [c EXCEPT !.streams[id].send.state = "DataSent"]
         IN  IF hits # {}
             THEN [c1 EXCEPT !.pending.stream[SetMin(hits)].fin = TRUE]
             ELSE [c1 EXCEPT !.pending.stream =
                        Append(@, StreamFrame(id, ss.offset, 0, TRUE))]

\* Recv::read into a buffer of cap bytes: [rs, res, n]; res is "Ok",
\* "Blocked", "Finished", "Reset" or "panic" (read of a Closed half).
Recv_read(rs, cap) ==
    LET n == Min(Readable(rs, rs.read_off), cap)
    IN  IF n > 0
        THEN [rs |-> [Assembler_read(rs, n) EXCEPT !.max_data = @ + n],
              res |-> "Ok", n |-> n]
        ELSE CASE rs.state = "ResetRecvd" ->
                    [rs |-> [rs EXCEPT !.state = "Closed", !.size = -1, !.error_code = -1],
                     res |-> "Reset", n |-> 0]
               [] rs.state = "DataRecvd" ->
                    [rs |-> [rs EXCEPT !.state = "Closed", !.size = -1],
                     res |-> "Finished", n |-> 0]
               [] rs.state = "Recv" -> [rs |-> rs, res |-> "Blocked", n |-> 0]
               [] OTHER -> [rs |-> rs, res |-> "panic", n |-> 0]

\* The offsets at which a segment of buffered bytes starts.  Frame
\* boundaries are not kept: a segment is a longest run of buffered bytes.
Segments(rs) == {b \in rs.asm : b - 1 \notin rs.asm}

\* Recv::read_unordered handing out the segment that starts at offset, the
\* first segment if none starts there: [rs, res, n].  With nothing buffered
\* the outcome is that of Recv::read.
Recv_read_unordered(rs, offset) ==
    IF rs.asm = {} THEN Recv_read(rs, 0)
    ELSE LET from == IF offset \in Segments(rs) THEN offset ELSE SetMin(Segments(rs))
             n == Readable(rs, from)
         IN  [rs |-> [rs EXCEPT !.asm = @ \ (from..(from + n - 1)),
                               !.read_off = IF from = @ THEN @ + n ELSE @,
                               !.max_data = @ + n],
              res |-> "Ok", n |-> n]

\* Connection::read_unordered: [c, res, n].
read_unordered(c, id, offset) ==
    IF id = 0 \/ ~has_recv(c, id) THEN [c |-> Panic(c), res |-> "panic", n |-> 0]
    ELSE LET r == Recv_read_unordered(c.streams[id].recv, offset)
             c1 == [c EXCEPT !.streams[id].recv = r.rs]
         IN  IF r.res = "panic" THEN [c |-> Panic(c), res |-> "panic", n |-> 0]
             ELSE IF r.res # "Ok" THEN [c |-> c1, res |-> r.res, n |-> 0]
             ELSE [c |-> [c1 EXCEPT
                           !.local_max_data = @ + r.n,
                           !.pending.max_data = TRUE,
                           !.pending.max_stream_data =
                               IF Recv_receiving_unknown_size(r.rs) THEN @ \cup {id} ELSE @],
                   res |-> "Ok", n |-> r.n]

\* Connection::read: [c, res, n].
read(c, id, cap) ==
    IF id = 0 \/ ~has_recv(c, id) THEN [c |-> Panic(c), res |-> "panic", n |-> 0]
    ELSE LET r == Recv_read(c.streams[id].recv, cap)
             c1 == [c EXCEPT !.streams[id].recv = r.rs]
         IN  IF r.res = "panic" THEN [c |-> Panic(c), res |-> "panic", n |-> 0]
             ELSE IF r.res # "Ok" THEN [c |-> c1, res |-> r.res, n |-> 0]
             ELSE [c |-> [c1 EXCEPT
                           !.local_max_data = @ + r.n,
                           !.pending.max_data = TRUE,
                           !.pending.max_stream_data =
                               IF Recv_receiving_unknown_size(r.rs) THEN @ \cup {id} ELSE @],
                   res |-> "Ok", n |-> r.n]

\* Connection::stop_sending
stop_sending(c, id, error_code) ==
    IF ~(directionality(id) = "Bi" \/ initiator(id) # c.side) \/ ~has_recv(c, id)
    THEN Panic(c)
    ELSE IF ~Recv_is_finished(c.streams[id].recv)
    THEN [c EXCEPT !.pending.stop_sending = Append(@, <<id, error_code>>)]
    ELSE c

(***************************************************************************)
(* Endpoint calls (endpoint.rs).  One connection is followed: registered   *)
(* says whether the endpoint's tables hold it.                             *)
(***************************************************************************)
\* flush_pending, the while loop: queue packets until next_packet has none.
\* r is what next_packet returned.
RECURSIVE send_packets(_, _, _, _)
queue_packet(w, config, t, sent, r) ==
    IF r.c.panicked THEN [w |-> SetConn(w, r.c), sent |-> sent]
    ELSE IF ~r.some THEN [w |-> w, sent |-> sent]
    ELSE send_packets(PushIo(SetConn(w, r.c), IoTransmit(r.ty, r.number)),
                      config, t, TRUE)

send_packets(w, config, t, sent) ==
    queue_packet(w, config, t, sent, next_packet(w.c, config, t))

\* A taken timer setting becomes a TimerStart or TimerStop.
push_timer(w, timer, setting) ==
    CASE setting.kind = "start" -> PushIo(w, IoTimerStart(timer, setting.time))
      [] setting.kind = "stop" -> PushIo(w, IoTimerStop(timer))
      [] OTHER -> w

\* flush_pending, the end: set_idle and set_loss_detection are taken.
take_timers(w) ==
    [push_timer(push_timer(w, "Idle", w.c.set_idle),
                "LossDetection", w.c.set_loss_detection)
        EXCEPT !.c.set_idle = NoChange, !.c.set_loss_detection = NoChange]

\* flush_pending after the while loop; s is [w, sent].
after_send(s, config, t) ==
    IF s.w.c.panicked THEN s.w
    ELSE take_timers(IF s.sent THEN SetConn(s.w, reset_idle_timeout(s.w.c, config, t))
                     ELSE s.w)

flush_pending(w, config, t) == after_send(send_packets(w, config, t, FALSE), config, t)

\* poll_io: the front of the I/O queue; [w, some, io].
pop_io(w) ==
    IF w.c.panicked \/ w.x.io = <<>>
    THEN [w |-> w, some |-> FALSE, io |-> IoTimerStop("-")]
    ELSE [w |-> [w EXCEPT !.x.io = Tail(@)], some |-> TRUE, io |-> Head(w.x.io)]

\* flush_pending, then the connection leaves the dirty set.
flush_dirty(w, config, t) == [flush_pending(w, config, t) EXCEPT !.x.dirty = FALSE]

\* Endpoint::poll_io: [w, some, io].
poll_io(w, config, t) ==
    IF w.x.io = <<>> /\ w.x.dirty THEN pop_io(flush_dirty(w, config, t))
    ELSE pop_io(w)

\* Endpoint::forget: the connection leaves the endpoint's tables.
forget(w) ==
    [w EXCEPT !.x.registered = FALSE, !.x.dirty = FALSE, !.x.readable = FALSE]

\* Endpoint::timeout whose Idle arm leaves out close_common
Endpoint_timeout_bare(w, config, t, timer) ==
    CASE timer = "Close" ->
            LET w1 == PushEvent(PushIo(w, IoTimerStop("Idle")), Event("ConnectionDrained", 0))
            IN  IF ~w.x.registered THEN SetConn(w1, Panic(w1.c))
                ELSE IF w.c.app_closed THEN forget(w1)
                ELSE SetConn(w1, SetState(w1.c, "Drained"))
      [] ~w.x.registered -> SetConn(w, Panic(w.c))
      [] timer = "Idle" ->
            LET w2 == SetConn(w, [SetState(w.c, "Draining") EXCEPT
                                    !.h_idle_from = w.c.state])
            IN  [PushEvent(w2, EventOf("ConnectionLost", "TimedOut")) EXCEPT !.x.dirty = TRUE]
      [] OTHER -> check_packet_loss(w, config, t)

\* Endpoint::timeout.  self.connections[conn.0] panics once forget has
\* removed the connection.
Endpoint_timeout(w, config, t, timer) ==
    CASE timer = "Close" ->
            LET w1 == PushEvent(PushIo(w, IoTimerStop("Idle")), Event("ConnectionDrained", 0))
            IN  IF ~w.x.registered THEN SetConn(w1, Panic(w1.c))
                ELSE IF w.c.app_closed THEN forget(w1)
                ELSE SetConn(w1, SetState(w1.c, "Drained"))
      [] ~w.x.registered -> SetConn(w, Panic(w.c))
      [] timer = "Idle" ->
            LET w1 == close_common(w, config, t)
                w2 == SetConn(w1, [SetState(w1.c, "Draining") EXCEPT
                                    !.h_idle_from = w.c.state])
            IN  [PushEvent(w2, EventOf("ConnectionLost", "TimedOut")) EXCEPT !.x.dirty = TRUE]
      [] OTHER -> check_packet_loss(w, config, t)

\* Endpoint::handle_initial, the end: r is what the new connection's
\* handle_initial returned.
initial_done(r) ==
    IF r.err # "" THEN PushIo(r.w, IoTransmit("Handshake", 0))
    ELSE r.w

\* Endpoint::handle_initial: a server endpoint meets a new Initial packet.
Endpoint_handle_initial(w, config, t, packet) ==
    IF ~packet.auth THEN w
    ELSE IF w.x.incoming + w.x.incoming_handshakes = config.accept_buffer
    THEN PushIo(w, IoTransmit("Handshake", 0))
    ELSE initial_done(
            handle_initial(
                SetConn([w EXCEPT !.x.registered = TRUE],
                        [Connection_new("Server", config) EXCEPT
                            !.rem_cid = packet.src_cid]),
                config, t, [packet EXCEPT !.number = expand(packet.number, 0)]))

\* Endpoint::handle for a datagram holding one packet: [w, outcome].
Endpoint_handle(w, config, t, packet) ==
    IF packet.ty = "Unsupported"
    THEN \* PartialDecode::new gives UnsupportedVersion: a listening endpoint
         \* answers with version negotiation, a client drops the datagram
         IF w.c.side = "Server"
         THEN [w |-> PushIo(w, IoTransmit("VersionNegotiate", 0)), outcome |-> "unsupported"]
         ELSE [w |-> w, outcome |-> "unsupported"]
    ELSE IF w.x.registered THEN handle_decode(w, config, t, packet)
    ELSE IF w.c.side # "Server" THEN [w |-> w, outcome |-> "unrouted"]
    ELSE IF packet.ty = "Initial"
    THEN IF packet.datagram_len < MIN_INITIAL_SIZE \/ ~packet.decodable
         THEN [w |-> w, outcome |-> "unrouted"]
         ELSE [w |-> Endpoint_handle_initial(w, config, t, packet), outcome |-> "initial"]
    ELSE IF packet.ty # "Short" THEN [w |-> w, outcome |-> "unrouted"]
    ELSE \* a short packet for an unknown connection: send a stateless reset
         [w |-> PushIo(w, IoTransmit("StatelessReset", 0)), outcome |-> "unrouted"]

\* Endpoint::close
Endpoint_close(w, config, t) ==
    IF w.c.state = "None" THEN SetConn(w, Panic(w.c))
    ELSE IF w.c.state = "Drained" THEN forget(w)
    ELSE close(w, config, t)

\* Endpoint::read, the match on what Connection::read returned.
after_read(w, config, id, r) ==
    [w |-> [w EXCEPT !.c = IF r.res \in {"Finished", "Reset"}
                           THEN maybe_cleanup(r.c, config, id) ELSE r.c,
                     !.x.dirty = TRUE],
     res |-> r.res, n |-> r.n]

\* Endpoint::read: [w, res, n].
Endpoint_read(w, config, id, cap) == after_read(w, config, id, read(w.c, id, cap))

\* Endpoint::read_unordered: [w, res, n].
Endpoint_read_unordered(w, config, id, offset) ==
    after_read(w, config, id, read_unordered(w.c, id, offset))

\* Endpoint::accept: the front of ctx.incoming goes to the application.
Endpoint_accept(w) ==
    IF w.x.incoming = 0 THEN w
    ELSE [w EXCEPT !.x.incoming = @ - 1, !.x.h_accepted = TRUE]

\* Endpoint::write
Endpoint_write(w, config, stream, len) == write(w, config, stream, len)

\* Endpoint::finish
Endpoint_finish(w, stream) == [w EXCEPT !.c = finish(w.c, stream), !.x.dirty = TRUE]

\* Endpoint::stop_sending
Endpoint_stop_sending(w, stream, error_code) ==
    [w EXCEPT !.c = stop_sending(w.c, stream, error_code), !.x.dirty = TRUE]

\* Endpoint::ping
ping(w) == [w EXCEPT !.c.pending.ping = TRUE, !.x.dirty = TRUE]

\* Endpoint::poll: take the next application event, or the next readable
\* stream of the connection (Connection::poll): the first one the hash set
\* yields.
poll(w) ==
    IF w.x.events # <<>> THEN [w EXCEPT !.x.events = Tail(@)]
    ELSE IF ~w.x.readable THEN w
    ELSE IF w.c.readable_streams = {} THEN [w EXCEPT !.x.readable = FALSE]
    ELSE LET stream == Head(Iterate(w.c.hash_order, w.c.readable_streams))
         IN  IF ~has_recv(w.c, stream) THEN SetConn(w, Panic(w.c))
             ELSE [w EXCEPT !.c.readable_streams = @ \ {stream},
                            !.c.streams[stream].recv.fresh = FALSE]

(***************************************************************************)
(* Inputs.  A received packet and its frames are drawn from small sets.    *)
(***************************************************************************)
\* A well-formed, authentic packet that ends a datagram of minimum size.
Packet(ty, number, frames, tls, tls_out) ==
    [ ty |-> ty, number |-> number, key_phase |-> FALSE, epoch |-> 0, auth |-> TRUE,
      reset |-> FALSE, frames |-> frames, tls |-> tls, tls_out |-> tls_out,
      params |-> "ok", peer_params |-> PeerParams, vn |-> "supported",
      decodable |-> TRUE, datagram_len |-> MIN_INITIAL_SIZE, src_cid |-> "peer" ]

AckFrame(acked) == [ty |-> "Ack", acked |-> acked, delay |-> 0]

Frame(ty) == [ty |-> ty]

\* A received STREAM frame of len bytes at offset.
RxStream(id, offset, len, fin) ==
    [ty |-> "Stream", id |-> id, offset |-> offset, len |-> len, fin |-> fin]

\* The sets of packet numbers an ACK frame may cover.
AckSets == {{n} : n \in 1..MaxTx} \cup {1..n : n \in 2..MaxTx}

\* Handshake-phase packets: stream 0 carries the TLS messages.  A client's
\* Initial opens the exchange; the flight that completes the handshake
\* starts at offset 0 for a client and at offset 1 for a server.
HandshakeInputs ==
    { Packet("Initial", 0, <<RxStream(0, 0, 1, FALSE)>>, "ongoing", 1),
      Packet("Handshake", 0, <<RxStream(0, 0, 1, FALSE)>>, "complete", 1),
      Packet("Handshake", 1, <<RxStream(0, 1, 1, FALSE)>>, "complete", 1),
      Packet("Handshake", 0, <<RxStream(0, 0, 1, FALSE)>>, "ongoing", 1),
      Packet("Handshake", 1, <<AckFrame({1})>>, "ongoing", 0),
      Packet("Handshake", 0, <<RxStream(0, 0, 1, FALSE)>>, "error", 0),
      Packet("Handshake", 0, <<Frame("ConnectionClose")>>, "ongoing", 0) }

\* Packets that close the connection or are rejected.
ClosingInputs ==
    { Packet("Short", 2, <<Frame("ConnectionClose")>>, "ongoing", 0),
      Packet("Short", 2, <<Frame("Invalid")>>, "ongoing", 0),
      [Packet("Short", 2, <<Frame("Ping")>>, "ongoing", 0) EXCEPT !.auth = FALSE],
      [Packet("Short", 2, <<Frame("Ping")>>, "ongoing", 0) EXCEPT !.reset = TRUE],
      [Packet("Short", 0, <<Frame("Ping")>>, "ongoing", 0) EXCEPT !.key_phase = TRUE] }

\* A 1-RTT packet that asks for an acknowledgement.
PingInput == Packet("Short", 2, <<Frame("Ping")>>, "ongoing", 0)

\* 1-RTT packets carrying acknowledgements.
AckInputs == {Packet("Short", 2, <<AckFrame(a)>>, "ongoing", 0) : a \in AckSets}

LifecycleInputs == HandshakeInputs \cup ClosingInputs \cup {PingInput}

(***************************************************************************)
(* The state machine.                                                      *)
(***************************************************************************)
Sides == {"Client", "Server"}

Timers == {"LossDetection", "Idle", "Close"}

\* Length of the ClientHello the TLS session writes in Connection::connect.
HelloLen == 1

\* The state after construction: a client endpoint after Endpoint::connect,
\* or a listening server endpoint that has not met the connection yet, under
\* the configuration the endpoint was built with.
InitWith(side, config) ==
    /\ conn = IF side = "Client"
              THEN connect(Connection_new("Client", config), HelloLen)
              ELSE Connection_new("Server", config)
    /\ ctx = [Context_new EXCEPT !.registered = side = "Client",
                                 !.dirty = side = "Client",
                                 !.config = config]
    /\ timers = [t \in Timers |-> -1]
    /\ now = 0
    /\ ticks = 0
    /\ calls = 0
    /\ last = [op |-> "new", outcome |-> ""]

InitFor(side) == InitWith(side, BaseConfig)

Init == \E side \in Sides : InitFor(side)

\* The pair the handlers work on; h_acked, h_ack_moved, h_err, h_vn,
\* h_retry, h_loss, h_delivered, h_decrypt, h_built and h_stop record one
\* call only.
Fresh(c) ==
    [c EXCEPT !.h_acked = {}, !.h_ack_moved = FALSE, !.h_err = "",
              !.h_vn = "-", !.h_retry = -1, !.h_loss = <<>>,
              !.h_delivered = <<>>, !.h_decrypt = NoDecrypt,
              !.h_built = <<>>, !.h_stop = <<>>]

World == [c |-> Fresh(conn), x |-> ctx]

\* The driver has carried out every queued I/O operation: it drains
\* poll_io after each call into the endpoint.
Quiet == ctx.io = <<>> /\ ~ctx.dirty

\* The application has taken every event: it drains poll after each call.
Idle == Quiet /\ ctx.events = <<>>

\* The connection exists and no handler has panicked.
Live == ctx.registered /\ ~conn.panicked /\ Idle

\* The application holds a handle: from connect(), or once the connection
\* was put on the accept queue or handed out by accept().
HasHandle == Live /\ (conn.side = "Client" \/ ctx.incoming > 0 \/ ctx.h_accepted)

InBounds(w) ==
    /\ w.c.largest_sent_packet <= MaxTx
    /\ Len(w.x.io) <= MaxIo
    /\ Len(w.x.events) <= MaxEvents

\* history: the version list of a version-negotiation packet handed to
\* Endpoint::handle, "-" for any other packet.
Seen(packet) == IF packet.ty = "VersionNegotiate" THEN packet.vn ELSE "-"

\* history: the packet number of a Retry packet handed to Endpoint::handle,
\* -1 for any other packet.
Retried(packet) == IF packet.ty = "Retry" THEN packet.number ELSE -1

\* A call ends: the handlers' result becomes the next state.
Done(w, op, outcome) ==
    /\ InBounds(w)
    /\ conn' = [w.c EXCEPT !.hash_order = <<>>]
    /\ ctx' = w.x
    /\ last' = [op |-> op, outcome |-> outcome]
    /\ IF op \in {"poll", "poll_io"} THEN calls' = calls
       ELSE calls < MaxCalls /\ calls' = calls + 1

\* Endpoint::handle on a datagram holding one packet.
HandleIn(Inputs) ==
    /\ ~conn.panicked
    /\ Idle
    /\ ctx.registered \/ (conn.side = "Server" /\ conn.state = "None")
    /\ \E packet \in Inputs, order \in Orders(conn.blocked_streams) :
        \E r \in {Endpoint_handle([World EXCEPT !.c.h_vn = Seen(packet),
                                                !.c.h_retry = Retried(packet),
                                                !.c.hash_order = order],
                                  ctx.config, now,
                                  IF conn.side = "Server"
                                  THEN [packet EXCEPT !.peer_params = ClientParams]
                                  ELSE packet)} :
            Done(r.w, "handle", r.outcome)
    /\ UNCHANGED <<timers, now, ticks>>

\* A timer of the connection expires: Endpoint::timeout.
Timeout ==
    /\ ~conn.panicked
    /\ Idle
    /\ \E t \in Timers :
        /\ timers[t] # -1
        /\ timers[t] <= now
        /\ timers' = [timers EXCEPT ![t] = -1]
        /\ Done(Endpoint_timeout(World, ctx.config, now, t), "timeout", t)
    /\ UNCHANGED <<now, ticks>>

\* Endpoint::poll_io, and the driver carrying out the operation it returned.
PollIo ==
    /\ ~conn.panicked
    /\ ctx.io # <<>> \/ ctx.dirty
    /\ \E order \in Orders(conn.pending.max_stream_data
                              \cup conn.handshake_pending.max_stream_data) :
       \E r \in {poll_io([World EXCEPT !.c.hash_order = order], ctx.config, now)} :
           /\ Done(r.w, "poll_io", IF r.some THEN r.io.kind ELSE "none")
           /\ timers' = IF r.some /\ r.io.kind = "TimerStart"
                        THEN [timers EXCEPT ![r.io.timer] = r.io.time]
                        ELSE IF r.some /\ r.io.kind = "TimerStop"
                        THEN [timers EXCEPT ![r.io.timer] = -1]
                        ELSE timers
    /\ UNCHANGED <<now, ticks>>

\* Endpoint::poll
Poll ==
    /\ ~conn.panicked
    /\ Quiet
    /\ ctx.events # <<>> \/ ctx.readable
    /\ \E order \in Orders(conn.readable_streams) :
           Done(poll([World EXCEPT !.c.hash_order = order]), "poll", "")
    /\ UNCHANGED <<timers, now, ticks>>


\* The streams the application may name; stream 0 belongs to the TLS session.
StreamIds == {1, 4}

\* history: what each call of open was asked for and what it returned
Opened(c, direction, id) ==
    [c EXCEPT !.h_open = Append(@, [direction |-> direction, id |-> id])]

\* history: the stream and length the latest write was given, and the
\* result and count it returned
Written(c, stream, len, res, n) ==
    [c EXCEPT !.h_write = [stream |-> stream, len |-> len, res |-> res, n |-> n]]

\* Endpoint::open
Open ==
    /\ HasHandle
    /\ conn.state = "Established"
    /\ \E direction \in {"Bi", "Uni"} :
        \E r \in {open(World.c, ctx.config, direction)} :
            Done([World EXCEPT !.c = Opened(r.c, direction, r.id)], "open",
                 IF r.id = -1 THEN "none" ELSE "some")
    /\ UNCHANGED <<timers, now, ticks>>

\* Endpoint::write of len bytes
WriteIn(Lens) ==
    /\ HasHandle
    /\ \E stream \in StreamIds, len \in Lens :
        /\ has_send(conn, stream)
        /\ \E r \in {Endpoint_write(World, ctx.config, stream, len)} :
                Done([r.w EXCEPT !.c = Written(r.w.c, stream, len, r.res, r.n)], "write", r.res)
    /\ UNCHANGED <<timers, now, ticks>>

\* Endpoint::finish
Finish ==
    /\ HasHandle
    /\ \E stream \in StreamIds :
        /\ has_send(conn, stream)
        /\ conn.streams[stream].send.state = "Ready"
        /\ Done(Endpoint_finish(World, stream), "finish", "")
    /\ UNCHANGED <<timers, now, ticks>>

\* Endpoint::read into a buffer of cap bytes
Read ==
    /\ HasHandle
    /\ \E stream \in StreamIds, cap \in {1, 4} :
        /\ has_recv(conn, stream)
        /\ \E r \in {Endpoint_read(World, ctx.config, stream, cap)} :
                Done(r.w, "read", r.res)
    /\ UNCHANGED <<timers, now, ticks>>

\* Endpoint::read_unordered: any buffered segment, as the stream holds them
ReadUnordered ==
    /\ HasHandle
    /\ \E stream \in StreamIds :
        /\ has_recv(conn, stream)
        /\ \E offset \in IF conn.streams[stream].recv.asm = {} THEN {-1}
                          ELSE Segments(conn.streams[stream].recv) :
            \E r \in {Endpoint_read_unordered(World, ctx.config, stream, offset)} :
                Done(r.w, "read_unordered", r.res)
    /\ UNCHANGED <<timers, now, ticks>>

\* Endpoint::accept
Accept ==
    /\ ~conn.panicked
    /\ Idle
    /\ conn.side = "Server"
    /\ Done(Endpoint_accept(World), "accept", IF ctx.incoming = 0 THEN "none" ELSE "some")
    /\ UNCHANGED <<timers, now, ticks>>

\* Endpoint::reset
Reset ==
    /\ HasHandle
    /\ \E stream \in StreamIds :
        /\ has_send(conn, stream)
        /\ Done(reset(World, stream, 0), "reset", "")
    /\ UNCHANGED <<timers, now, ticks>>

\* Endpoint::stop_sending
StopSending ==
    /\ HasHandle
    /\ \E stream \in StreamIds :
        /\ has_recv(conn, stream)
        /\ Done(Endpoint_stop_sending(World, stream, 0), "stop_sending", "")
    /\ UNCHANGED <<timers, now, ticks>>

\* Endpoint::ping
Ping ==
    /\ HasHandle
    /\ Done(ping(World), "ping", "")
    /\ UNCHANGED <<timers, now, ticks>>

\* Endpoint::close
Close ==
    /\ HasHandle
    /\ Done(Endpoint_close(World, ctx.config, now), "close", "")
    /\ UNCHANGED <<timers, now, ticks>>

\* The driver's clock advances, by one or to the next deadline.
Tick ==
    /\ ticks < MaxTicks
    /\ Idle
    /\ \E t \in {now + 1} \cup {timers[k] : k \in {k \in Timers : timers[k] > now}} :
        now' = t
    /\ ticks' = ticks + 1
    /\ last' = [op |-> "tick", outcome |-> ""]
    /\ UNCHANGED <<conn, ctx, timers, calls>>

Handle == HandleIn(LifecycleInputs)

Next ==
    \/ Handle
    \/ Accept
    \/ Timeout
    \/ PollIo
    \/ Poll
    \/ Close
    \/ Tick

Spec == Init /\ [][Next]_vars

(***************************************************************************)
(* Loss recovery on a client: acknowledgements of every shape, pings,      *)
(* the loss-detection alarm.                                               *)
(***************************************************************************)
\* The server's flight that completes the handshake.
HandshakeDone == Packet("Handshake", 0, <<RxStream(0, 0, 1, FALSE)>>, "complete", 1)

LossInputs ==
    { HandshakeDone,
      Packet("Handshake", 0, <<RxStream(0, 0, 1, FALSE)>>, "ongoing", 1),
      Packet("Handshake", 1, <<AckFrame({1})>>, "ongoing", 0),
      PingInput }
    \cup AckInputs

InitClient == InitFor("Client")

HandleLoss == HandleIn(LossInputs)

NextLoss ==
    \/ HandleLoss
    \/ Timeout
    \/ PollIo
    \/ Poll
    \/ Ping
    \/ Tick

SpecLoss == InitClient /\ [][NextLoss]_vars

(***************************************************************************)
(* Receiving on a client: STREAM and RST_STREAM frames for the server's    *)
(* first bidirectional stream, and the application reading it.             *)
(***************************************************************************)
RxRstStream(id, final_offset) ==
    [ty |-> "RstStream", id |-> id, error_code |-> 0, final_offset |-> final_offset]

RecvInputs ==
    {HandshakeDone}
    \cup {Packet("Short", 2, <<RxStream(1, off, len, fin)>>, "ongoing", 0) :
            off \in {0, 1, 3}, len \in {1, 2}, fin \in BOOLEAN}
    \cup {Packet("Short", 2, <<RxRstStream(1, fo)>>, "ongoing", 0) : fo \in {0, 2, 7}}

HandleRecv == HandleIn(RecvInputs)

NextRecv ==
    \/ HandleRecv
    \/ PollIo
    \/ Poll
    \/ Read
    \/ ReadUnordered

SpecRecv == InitClient /\ [][NextRecv]_vars

(***************************************************************************)
(* Sending on a client: the application opens, writes, finishes and resets *)
(* streams; the server grants credit, acknowledges, asks to stop.          *)
(***************************************************************************)
SendInputs ==
    {HandshakeDone}
    \cup {Packet("Short", 2, <<[ty |-> "MaxData", bytes |-> 6]>>, "ongoing", 0)}
    \cup {Packet("Short", 2, <<[ty |-> "MaxStreamData", id |-> id, offset |-> 5]>>,
                 "ongoing", 0) : id \in StreamIds}
    \cup {Packet("Short", 2, <<[ty |-> "StopSending", id |-> 4, error_code |-> 0]>>,
                 "ongoing", 0)}
    \cup {Packet("Short", 2, <<AckFrame(a)>>, "ongoing", 0) : a \in {{2}, {3}, {2, 3}}}

HandleSend == HandleIn(SendInputs)

Write == WriteIn({1, 2, 5})

NextSend ==
    \/ HandleSend
    \/ PollIo
    \/ Poll
    \/ Open
    \/ Write
    \/ Finish
    \/ Reset

SpecSend == InitClient /\ [][NextSend]_vars

(***************************************************************************)
(* C1.  Across handle / timeout / close calls the connection state changes *)
(* only along the legal edges: Handshake -> {Established, HandshakeFailed, *)
(* Draining}; Established -> {Closed, Draining}; HandshakeFailed ->        *)
(* Draining; Closed -> Draining; {HandshakeFailed, Closed, Draining} ->    *)
(* Drained; any non-Drained state -> Drained on a stateless reset.  The    *)
(* code breaks it: a packet that fails authentication makes handle_packet  *)
(* return Established whatever the state was.                              *)
(***************************************************************************)
LegalEdges ==
    { <<"Handshake", "Established">>, <<"Handshake", "HandshakeFailed">>,
      <<"Handshake", "Draining">>, <<"Established", "Closed">>,
      <<"Established", "Draining">>, <<"HandshakeFailed", "Draining">>,
      <<"Closed", "Draining">>, <<"HandshakeFailed", "Drained">>,
      <<"Closed", "Drained">>, <<"Draining", "Drained">> }

C1_Edge ==
    \/ conn'.state = conn.state
    \/ conn.state = "None"
    \/ <<conn.state, conn'.state>> \in LegalEdges
    \/ /\ last'.outcome = "reset"
       /\ conn.state # "Drained"
       /\ conn'.state = "Drained"

C1_LegalEdges == [][C1_Edge]_vars

(***************************************************************************)
(* C2.  Whenever the state is Established the TLS session has reported     *)
(* handshake complete, the peer's transport parameters are installed and   *)
(* the 1-RTT keys are present.  The code breaks it: the failed-            *)
(* authentication arm of handle_packet yields Established in mid-handshake.*)
(***************************************************************************)
params_installed(c) == c.params # TransportParameters_new(BaseConfig)

C2_EstablishedIsComplete ==
    conn.state = "Established" =>
        /\ ~conn.tls.handshaking
        /\ params_installed(conn)
        /\ conn.crypto

(***************************************************************************)
(* C10.  A received packet that fails decryption or authentication, and is *)
(* not an illegal key update, is dropped silently: connection state,       *)
(* pending ACKs, streams and the event queue are what they were.  The code *)
(* breaks it in every state but Established.                               *)
(***************************************************************************)
C10_Dropped ==
    (last'.op = "handle" /\ last'.outcome = "failed") =>
        /\ conn'.state = conn.state
        /\ conn'.pending_acks = conn.pending_acks
        /\ conn'.streams = conn.streams
        /\ ctx'.events = ctx.events

C10_SilentDrop == [][C10_Dropped]_vars


(***************************************************************************)
(* C3.  Packet-number monotonicity: every number supplied to               *)
(* on_packet_sent is strictly greater than every number supplied before,   *)
(* every packet the connection emits carries a number that get_tx_number   *)
(* handed out and that no earlier packet carried, and the sent-packet map  *)
(* never receives a key it already held.                                   *)
(***************************************************************************)
StrictlyIncreasing(s) == \A i \in 1..(Len(s) - 1) : s[i] < s[i + 1]

Range(s) == {s[i] : i \in DOMAIN s}

C3_PacketNumbers ==
    /\ StrictlyIncreasing(conn.h_sent)
    /\ StrictlyIncreasing(conn.h_tx)
    /\ StrictlyIncreasing(conn.h_emit)
    /\ Range(conn.h_emit) \subseteq Range(conn.h_tx)
    /\ Range(conn.h_sent) \subseteq Range(conn.h_emit)
    /\ ~conn.h_dup

\* Three recorded packets and a close packet after them.
C3_Witness ==
    /\ Len(conn.h_sent) >= 3
    /\ Len(conn.h_emit) > Len(conn.h_sent)
    /\ State_is_closed(conn.state)

(***************************************************************************)
(* C5.  Alarm correctness: after every operation the most recent           *)
(* loss-detection timer intent is "armed" when bytes_in_flight > 0 and     *)
(* "cleared" when bytes_in_flight = 0, unless that intent was written by   *)
(* close_common or by a stateless reset, which clear the timer whatever    *)
(* is in flight.                                                           *)
(***************************************************************************)
AlarmMatchesFlight(c) ==
    /\ c.bytes_in_flight > 0 => c.h_intent.kind = "start"
    /\ c.bytes_in_flight = 0 => c.h_intent.kind # "start"

C5_Alarm ==
    conn.h_intent.by \notin {"close_common", "stateless_reset"} =>
        AlarmMatchesFlight(conn)

\* The claim as stated, closing included.
C5_AlarmAlways == AlarmMatchesFlight(conn)

\* Everything in flight was acknowledged and the alarm cleared for it.
C5_Witness ==
    /\ conn.h_intent = Intent("stop", "set_loss_detection_alarm")
    /\ conn.largest_acked_packet > 0
    /\ conn.bytes_in_flight = 0


(***************************************************************************)
(* C4.  Bytes-in-flight conservation: after every operation                *)
(* bytes_in_flight equals the sum of the recorded wire sizes of the        *)
(* packets in sent_packets (ACK-only packets are recorded with size 0),    *)
(* and it never underflows.                                                *)
(***************************************************************************)
RECURSIVE SumBytes(_, _)
SumBytes(packets, numbers) ==
    IF numbers = {} THEN 0
    ELSE SumBytes(packets, numbers \ {SetMax(numbers)}) + packets[SetMax(numbers)].bytes

C4_BytesInFlight ==
    /\ conn.bytes_in_flight >= 0
    /\ conn.bytes_in_flight = SumBytes(conn.sent_packets, DOMAIN conn.sent_packets)

\* Two packets still in flight after one was lost and another acknowledged.
C4_Witness ==
    /\ Cardinality(DOMAIN conn.sent_packets) >= 2
    /\ conn.bytes_in_flight > 0
    /\ conn.h_lost # {}
    /\ conn.largest_acked_packet > 0

(***************************************************************************)
(* C6.  Loss monotonicity: a packet declared lost, by detect_lost_packets  *)
(* or by the handshake retransmission alarm, is out of sent_packets, its   *)
(* bytes were subtracted from bytes_in_flight exactly once, and            *)
(* acknowledging its number later changes nothing: on_packet_acked         *)
(* returns the connection as it was.                                       *)
(***************************************************************************)
C6_LossMonotonic ==
    /\ conn.h_lost \cap DOMAIN conn.sent_packets = {}
    /\ \A p \in conn.h_lost :
        /\ p \in DOMAIN conn.h_debits
        /\ conn.h_debits[p] = 1
        /\ on_packet_acked(conn, BaseConfig, p) = conn

\* The claim as stated: an ACK frame that covers a lost number leaves
\* bytes_in_flight and the congestion window as they were.
C6_AckOfLostChangesNothing == ~conn.h_ack_moved

\* An ACK covering a packet that was declared lost has just been processed.
C6_Witness ==
    /\ conn.h_acked \cap conn.h_lost # {}
    /\ last.op = "handle"


(***************************************************************************)
(* C7.  Flow-control safety on receive: data_recvd <= local_max_data in    *)
(* every reachable state, and every receive half has limit <= max_data.    *)
(* The code breaks the first bound: RST_STREAM adds the bytes its final    *)
(* offset reveals to data_recvd without comparing them with any window.    *)
(***************************************************************************)
C7_ReceiveWindow ==
    /\ conn.data_recvd <= conn.local_max_data
    /\ \A id \in DOMAIN conn.streams :
        has_recv(conn, id) =>
            Recv_limit(conn.streams[id].recv) <= conn.streams[id].recv.max_data

(***************************************************************************)
(* C9.  Final-offset safety: once a receive stream's final offset is known *)
(* (a STREAM frame with fin or a RST_STREAM was accepted), no later STREAM *)
(* frame whose end exceeds it, no later fin whose end differs from it and  *)
(* no RST_STREAM with another final offset is accepted, so no byte at or   *)
(* past the final offset enters the stream.  The code breaks it once the   *)
(* application has read the stream to its end: the receive half is Closed  *)
(* and has forgotten its final offset.                                     *)
(***************************************************************************)
C9_FinalOffset == ~conn.h_past_final


(***************************************************************************)
(* C8.  Send-side flow control: in every reachable state data_sent <=      *)
(* max_data, the connection limit the peer granted, and for every stream   *)
(* other than stream 0 that has a send half the send offset is <= that     *)
(* half's max_data.  Stream 0 carries the TLS handshake, which is queued   *)
(* without looking at max_data.                                            *)
(***************************************************************************)
SendWithinWindow(c, ids) ==
    /\ c.data_sent <= c.max_data
    /\ \A id \in ids :
        has_send(c, id) => c.streams[id].send.offset <= c.streams[id].send.max_data

C8_SendWindow == SendWithinWindow(conn, DOMAIN conn.streams \ {0})

\* The claim as stated, stream 0 included.
C8_SendWindowAll == SendWithinWindow(conn, DOMAIN conn.streams)

\* The application used up a stream's whole credit.
C8_Witness ==
    /\ conn.data_sent > 0
    /\ \E id \in DOMAIN conn.streams \ {0} :
        /\ has_send(conn, id)
        /\ conn.streams[id].send.offset > 0
        /\ conn.streams[id].send.offset = conn.streams[id].send.max_data

(***************************************************************************)
(* Rejected packets: frames that are not allowed where they arrive,        *)
(* malformed frames, version negotiation.  Both sides.                     *)
(***************************************************************************)
\* A version-negotiation packet; vn tells whether the payload is well formed
\* and whether it lists the local VERSION.
VersionNegotiate(vn) ==
    [Packet("VersionNegotiate", 0, <<>>, "ongoing", 0) EXCEPT !.vn = vn]

\* A datagram of a version the endpoint does not support.
Unsupported == Packet("Unsupported", 0, <<>>, "ongoing", 0)

ErrInputs ==
    { HandshakeDone,
      Unsupported,
      Packet("Initial", 0, <<RxStream(0, 0, 1, FALSE)>>, "ongoing", 1),
      Packet("Handshake", 1, <<RxStream(0, 1, 1, FALSE)>>, "complete", 1),
      Packet("Handshake", 1, <<Frame("Ping")>>, "ongoing", 0),
      Packet("Handshake", 1, <<AckFrame({1}), RxStream(1, 0, 1, FALSE)>>, "ongoing", 0),
      [HandshakeDone EXCEPT !.src_cid = ""],
      Packet("Handshake", 0, <<RxStream(0, 0, 1, FALSE)>>, "alert", 0),
      Packet("Short", 2, <<Frame("NewConnectionId")>>, "ongoing", 0),
      Packet("Short", 2, <<RxStream(0, 1, 1, FALSE)>>, "alert", 0),
      Packet("Short", 2, <<Frame("Invalid")>>, "ongoing", 0),
      Packet("Short", 2, <<RxStream(1, 0, 1, FALSE), Frame("PathResponse")>>, "ongoing", 0),
      Packet("Short", 3, <<AckFrame({1, 2}),
                           [ty |-> "MaxStreamData", id |-> 8, offset |-> 5]>>,
             "ongoing", 0),
      Packet("Short", 3, <<[ty |-> "MaxStreamId", id |-> 8],
                           RxStream(1, 5, 1, FALSE)>>, "ongoing", 0) }
    \cup {VersionNegotiate(vn) : vn \in {"supported", "unsupported", "malformed"}}

HandleErr == HandleIn(ErrInputs)

NextErr ==
    \/ HandleErr
    \/ PollIo
    \/ Poll

SpecErr == Init /\ [][NextErr]_vars

(***************************************************************************)
(* C11.  A transport error returned while an authenticated packet is       *)
(* processed in Handshake or Established queues exactly one ConnectionLost *)
(* event, carrying that error, exactly one Transmit (the CONNECTION_CLOSE: *)
(* a Handshake packet if the state was Handshake, a 1-RTT packet           *)
(* otherwise) and one TimerStart of the Close timer, and moves the         *)
(* connection to HandshakeFailed from Handshake and to Closed from         *)
(* Established.  Event and I/O queue are empty before every handle call.   *)
(***************************************************************************)
\* The entries of queue q of the given kind.
OfKind(q, kind) == {i \in 1..Len(q) : q[i].kind = kind}

C11_Step ==
    (/\ last'.op = "handle" /\ last'.outcome = "ok"
     /\ conn.state \in {"Handshake", "Established"}
     /\ conn'.h_err \notin {"", "VersionMismatch"})
    => /\ Cardinality(OfKind(ctx'.events, "ConnectionLost")) = 1
       /\ \A i \in OfKind(ctx'.events, "ConnectionLost") :
            ctx'.events[i].reason = conn'.h_err
       /\ Cardinality(OfKind(ctx'.io, "Transmit")) = 1
       /\ \A i \in OfKind(ctx'.io, "Transmit") :
            ctx'.io[i].ty = IF conn.state = "Handshake" THEN "Handshake" ELSE "Short"
       /\ Cardinality({i \in OfKind(ctx'.io, "TimerStart") :
                            ctx'.io[i].timer = "Close"}) = 1
       /\ conn'.state = IF conn.state = "Handshake" THEN "HandshakeFailed" ELSE "Closed"

C11_FrameViolation == [][C11_Step]_vars

\* A stream frame that exceeds the stream window, after a frame that was
\* accepted, closed an established connection.
C11_Witness ==
    /\ last.op = "handle" /\ last.outcome = "ok"
    /\ conn.h_err = "FLOW_CONTROL_ERROR"
    /\ conn.state = "Closed"
    /\ Len(ctx.events) = 2

\* The same in Handshake.
C11_WitnessHandshake ==
    /\ last.op = "handle" /\ last.outcome = "ok"
    /\ conn.h_err = "PROTOCOL_VIOLATION"
    /\ conn.state = "HandshakeFailed"

(***************************************************************************)
(* C12.  Every step that takes the connection from Handshake or            *)
(* Established into Closed, HandshakeFailed or Draining queues a           *)
(* TimerStart of the Close timer at now + 3 * rto().  When the Close timer *)
(* fires, a ConnectionDrained event is queued and the connection becomes   *)
(* Drained, or leaves the endpoint if the application had closed it.       *)
(***************************************************************************)
C12_Enter ==
    (/\ conn.state \in {"Handshake", "Established"}
     /\ conn'.state \in {"Closed", "HandshakeFailed", "Draining"})
    => \E i \in OfKind(ctx'.io, "TimerStart") :
            /\ ctx'.io[i].timer = "Close"
            /\ ctx'.io[i].time = now + 3 * rto(conn', ctx.config)

C12_Expire ==
    (last'.op = "timeout" /\ last'.outcome = "Close")
    => /\ OfKind(ctx'.events, "ConnectionDrained") # {}
       /\ IF conn.app_closed THEN ~ctx'.registered
          ELSE ctx'.registered /\ conn'.state = "Drained"

C12_CloseTimer == [][C12_Enter /\ C12_Expire]_vars

\* The Close timer that the peer's CONNECTION_CLOSE, an error or the idle
\* timer started has fired on a connection the application had not closed.
C12_Witness ==
    /\ last.op = "timeout" /\ last.outcome = "Close"
    /\ conn.state = "Drained"
    /\ ~conn.app_closed
    /\ ctx.registered
    /\ OfKind(ctx.events, "ConnectionDrained") # {}

\* The Close timer has fired after the application closed the connection.
C12_WitnessRemoved ==
    /\ last.op = "timeout" /\ last.outcome = "Close"
    /\ conn.app_closed
    /\ ~ctx.registered

(***************************************************************************)
(* C13.  When the Idle timer fires in Handshake or Established the         *)
(* connection moves to Draining, one ConnectionLost{TimedOut} event is     *)
(* queued, the loss-detection alarm is stopped (the intent is written and  *)
(* the next flush emits the TimerStop) and the Close timer is started.     *)
(* When the Close timer fires after that, the connection is Drained:       *)
(* C13_IdleTimeoutDrains says so without exception and does not hold,      *)
(* because the application may call close on the draining connection, and  *)
(* then the Close timer removes it from the endpoint instead.              *)
(* C13_IdleTimeout allows for that.                                        *)
(***************************************************************************)
C13_IdleStep ==
    (/\ last'.op = "timeout" /\ last'.outcome = "Idle"
     /\ conn.state \in {"Handshake", "Established"})
    => /\ conn'.state = "Draining"
       /\ Cardinality(OfKind(ctx'.events, "ConnectionLost")) = 1
       /\ \A i \in OfKind(ctx'.events, "ConnectionLost") :
            ctx'.events[i].reason = "TimedOut"
       /\ conn'.set_loss_detection = Stop
       /\ ctx'.dirty
       /\ \E i \in OfKind(flush_pending([c |-> conn', x |-> ctx'], ctx.config, now).x.io,
                          "TimerStop") :
            flush_pending([c |-> conn', x |-> ctx'], ctx.config, now).x.io[i].timer
                = "LossDetection"
       /\ \E i \in OfKind(ctx'.io, "TimerStart") : ctx'.io[i].timer = "Close"

\* The Close timer fires on a connection that idled out of Handshake or
\* Established.
AfterIdle ==
    /\ last'.op = "timeout" /\ last'.outcome = "Close"
    /\ conn.h_idle_from \in {"Handshake", "Established"}

C13_IdleTimeoutDrains ==
    [][C13_IdleStep /\ (AfterIdle => conn'.state = "Drained")]_vars

C13_IdleTimeout ==
    [][/\ C13_IdleStep
       /\ AfterIdle => IF conn.app_closed THEN ~ctx'.registered
                       ELSE conn'.state = "Drained" /\ ctx'.registered]_vars

\* An established connection idled out, and the Close timer has fired.
C13_Witness ==
    /\ last.op = "timeout" /\ last.outcome = "Close"
    /\ conn.h_idle_from = "Established"
    /\ conn.state = "Drained"

(***************************************************************************)
(* Idle timeouts: a client whose endpoint was configured with an idle      *)
(* timeout of 0, 1 or 2 seconds meets a server that announces 0, 1 or 2.   *)
(***************************************************************************)
IdleTimeouts == {0, 1, 2}

IdleInputs ==
    {[HandshakeDone EXCEPT !.peer_params.idle_timeout = s] : s \in IdleTimeouts}
    \cup {PingInput}

InitIdle ==
    \E s \in IdleTimeouts : InitWith("Client", [BaseConfig EXCEPT !.idle_timeout = s])

HandleIdle == HandleIn(IdleInputs)

NextIdle ==
    \/ HandleIdle
    \/ Timeout
    \/ PollIo
    \/ Poll
    \/ Tick

SpecIdle == InitIdle /\ [][NextIdle]_vars

(***************************************************************************)
(* C14.  The effective idle timeout is the smaller of the local and the    *)
(* peer's idle_timeout when both are non-zero and the non-zero one when    *)
(* one of them is zero: reset_idle_timeout arms the Idle timer that far    *)
(* ahead.  When both are zero there is no idle timeout: once the peer's    *)
(* parameters are installed (the 1-RTT keys exist), the driver holds no    *)
(* Idle timer that has expired or expires now.  The code breaks the second *)
(* part: reset_idle_timeout arms the Idle timer at now + 0.                *)
(***************************************************************************)
\* The idle timeout the claim describes; 0 stands for none.
Effective(local, peer) ==
    IF local = 0 THEN peer ELSE IF peer = 0 THEN local ELSE Min(local, peer)

C14_IdleTimeout ==
    /\ Effective(ctx.config.idle_timeout, conn.params.idle_timeout) > 0
        => reset_idle_timeout(conn, ctx.config, now).set_idle
            = Start(now + Effective(ctx.config.idle_timeout, conn.params.idle_timeout)
                            * IDLE_UNIT)
    /\ (/\ conn.crypto
        /\ ctx.config.idle_timeout = 0
        /\ conn.params.idle_timeout = 0)
        => timers["Idle"] = -1 \/ timers["Idle"] > now

(***************************************************************************)
(* C15.  A packet that ends with the stateless reset token the peer        *)
(* announced takes a connection that is not Drained straight to Drained,   *)
(* queues exactly the event ConnectionLost{Reset} and exactly the three    *)
(* operations TimerStop LossDetection, Close, Idle, and nothing else of    *)
(* the packet is processed: no acknowledgement is owed for it, no frame of *)
(* it reaches the streams or the loss-recovery state.  On a Drained        *)
(* connection nothing is queued.  Both queues are empty before the call.   *)
(***************************************************************************)
\* What the frames and the header of a processed packet could change.
Untouched(c) ==
    <<c.pending_acks, c.permit_ack_only, c.rx_packet, c.streams, c.sent_packets,
      c.bytes_in_flight, c.pending, c.key_phase, c.set_idle, c.largest_sent_packet,
      c.app_closed>>

C15_Step ==
    (last'.op = "handle" /\ last'.outcome = "reset")
    => /\ conn.params.stateless_reset_token
       /\ conn'.state = "Drained"
       /\ Untouched(conn') = Untouched(conn)
       /\ IF conn.state = "Drained"
          THEN ctx' = ctx
          ELSE /\ ctx'.events = <<EventOf("ConnectionLost", "Reset")>>
               /\ Len(ctx'.io) = 3
               /\ {ctx'.io[i] : i \in 1..3} =
                    {IoTimerStop(timer) : timer \in {"LossDetection", "Close", "Idle"}}

C15_StatelessReset == [][C15_Step]_vars

\* A stateless reset has drained an established connection.
C15_Witness ==
    /\ last.op = "handle" /\ last.outcome = "reset"
    /\ conn.state = "Drained"
    /\ Len(ctx.io) = 3
    /\ Len(ctx.events) = 1

\* A second stateless reset arrived on the drained connection.
C15_WitnessDrained ==
    /\ last.op = "handle" /\ last.outcome = "reset"
    /\ conn.state = "Drained"
    /\ ctx.io = <<>>
    /\ ctx.events = <<>>

(***************************************************************************)
(* Draining on a client.  The endpoint asks only that `now` never goes     *)
(* back: a driver may hand it a timer expiry while operations are still    *)
(* queued in the I/O queue, the TimerStop of that timer among them.        *)
(***************************************************************************)
DrainInputs ==
    { HandshakeDone,
      Packet("Handshake", 0, <<Frame("ConnectionClose")>>, "ongoing", 0),
      Packet("Short", 2, <<Frame("ConnectionClose")>>, "ongoing", 0),
      Packet("Short", 3, <<RxStream(1, 0, 1, FALSE)>>, "ongoing", 0),
      [Packet("Short", 0, <<Frame("Ping")>>, "ongoing", 0) EXCEPT !.key_phase = TRUE],
      PingInput }

HandleDrain == HandleIn(DrainInputs)

\* Endpoint::timeout, called before the driver has drained poll_io.
TimeoutEarly ==
    /\ ~conn.panicked
    /\ ~Quiet
    /\ \E t \in Timers :
        /\ timers[t] # -1
        /\ timers[t] <= now
        /\ timers' = [timers EXCEPT ![t] = -1]
        /\ Done(Endpoint_timeout(World, ctx.config, now, t), "timeout", t)
    /\ UNCHANGED <<now, ticks>>

NextDrain ==
    \/ HandleDrain
    \/ Timeout
    \/ TimeoutEarly
    \/ PollIo
    \/ Poll
    \/ Close
    \/ Tick

SpecDrain == InitClient /\ [][NextDrain]_vars

(***************************************************************************)
(* C16.  No call on a connection in Draining queues a Transmit, and a      *)
(* packet handled in Draining changes neither the streams nor the pending  *)
(* ACKs.  The code breaks the first part.  handle_packet answers a packet  *)
(* with an illegal key update by a CONNECTION_CLOSE whatever the state,    *)
(* and check_packet_loss does not look at the state, so a loss-detection   *)
(* expiry that reaches a draining connection sends a probe.                *)
(***************************************************************************)
C16_Step ==
    conn.state = "Draining"
    => /\ Cardinality(OfKind(ctx'.io, "Transmit"))
            <= Cardinality(OfKind(ctx.io, "Transmit"))
       /\ last'.op = "handle"
            => /\ conn'.streams = conn.streams
               /\ conn'.pending_acks = conn.pending_acks

C16_DrainingSilent == [][C16_Step]_vars


(***************************************************************************)
(* C17.  close returns at once and is idempotent.  On a connection in      *)
(* Handshake or Established it queues exactly one Close TimerStart and one *)
(* Transmit (the CONNECTION_CLOSE), asks for the loss-detection alarm to   *)
(* be stopped and moves to HandshakeFailed resp. Closed.  On a connection  *)
(* already in HandshakeFailed, Closed or Draining it queues nothing, asks  *)
(* for no timer and leaves the state alone; it only records that the       *)
(* application closed.                                                     *)
(***************************************************************************)
C17_Open ==
    conn.state \in {"Handshake", "Established"}
    => /\ Len(ctx'.io) = Len(ctx.io) + 2
       /\ SubSeq(ctx'.io, 1, Len(ctx.io)) = ctx.io
       /\ ctx'.io[Len(ctx.io) + 1].kind = "TimerStart"
       /\ ctx'.io[Len(ctx.io) + 1].timer = "Close"
       /\ ctx'.io[Len(ctx.io) + 2].kind = "Transmit"
       /\ conn'.set_loss_detection = Stop
       /\ conn'.state = (IF conn.state = "Handshake" THEN "HandshakeFailed" ELSE "Closed")
       /\ conn'.app_closed

C17_Closed ==
    conn.state \in {"HandshakeFailed", "Closed", "Draining"}
    => /\ ctx' = ctx
       /\ conn'.state = conn.state
       /\ conn'.set_loss_detection = conn.set_loss_detection
       /\ conn'.set_idle = conn.set_idle
       /\ conn'.app_closed

C17_Step == last'.op = "close" => C17_Open /\ C17_Closed

C17_CloseIdempotent == [][C17_Step]_vars

\* close has been called on an established connection.
C17_Witness ==
    /\ last.op = "close"
    /\ conn.state = "Closed"
    /\ conn.app_closed
    /\ OfKind(ctx.io, "Transmit") # {}

\* close has been called on a connection that the peer had already closed.
C17_WitnessAgain ==
    /\ last.op = "close"
    /\ conn.state = "Draining"
    /\ conn.app_closed
    /\ ctx.io = << >>


(***************************************************************************)
(* C18.  The connection is in the endpoint's tables exactly until both     *)
(* have happened, in either order: it drained and the application called   *)
(* close on it.  A step removes it only when the second of the two         *)
(* happens, and no step leaves a drained connection that the application   *)
(* has closed in the tables.  The code breaks the second part: a stateless *)
(* reset that arrives after close makes the connection Drained and         *)
(* returns, and nothing removes it afterwards.                             *)
(***************************************************************************)
C18_OnlyWhenBoth ==
    (ctx.registered /\ ~ctx'.registered)
    => \/ last'.op = "timeout" /\ last'.outcome = "Close" /\ conn.app_closed
       \/ last'.op = "close" /\ conn.state = "Drained"

C18_WhenBoth ==
    (ctx'.registered /\ conn'.state = "Drained") => ~conn'.app_closed

C18_Removal == [][C18_OnlyWhenBoth /\ C18_WhenBoth]_vars

\* The half of C18 that the code keeps.
C18_NoEarlyRemoval == [][C18_OnlyWhenBoth]_vars


(***************************************************************************)
(* A listening endpoint and the Initial packets of unknown connections:    *)
(* a valid one, one that TLS rejects, one with bad transport parameters,   *)
(* two whose payload parse_initial refuses, one that fails authentication  *)
(* and one in an undersized datagram; then the client's next flight.  The  *)
(* accept buffer has room for one connection or for none.                  *)
(***************************************************************************)
AcceptBuffers == {0, 1}

InitialOf(frames, tls) == Packet("Initial", 0, frames, tls, 1)

AcceptInputs ==
    { InitialOf(<<RxStream(0, 0, 1, FALSE)>>, "ongoing"),
      InitialOf(<<RxStream(0, 0, 1, FALSE)>>, "error"),
      [InitialOf(<<RxStream(0, 0, 1, FALSE)>>, "ongoing") EXCEPT !.params = "bad"],
      InitialOf(<<Frame("Ping")>>, "ongoing"),
      InitialOf(<<RxStream(0, 1, 1, FALSE)>>, "ongoing"),
      [InitialOf(<<RxStream(0, 0, 1, FALSE)>>, "ongoing") EXCEPT !.auth = FALSE],
      [InitialOf(<<RxStream(0, 0, 1, FALSE)>>, "ongoing") EXCEPT
            !.datagram_len = MIN_INITIAL_SIZE - 1],
      Packet("Handshake", 1, <<RxStream(0, 1, 1, FALSE)>>, "complete", 1),
      PingInput }

InitAccept ==
    \E n \in AcceptBuffers : InitWith("Server", [BaseConfig EXCEPT !.accept_buffer = n])

HandleAccept == HandleIn(AcceptInputs)

NextAccept == HandleAccept \/ Accept \/ Timeout \/ PollIo \/ Poll \/ Close \/ Tick

SpecAccept == InitAccept /\ [][NextAccept]_vars

(***************************************************************************)
(* C19.  After the endpoint has handled an Initial packet of an unknown    *)
(* connection, either no connection is registered or the registered        *)
(* connection is in state Handshake; a connection without a state is never *)
(* left in the endpoint's tables.  The code breaks this: the connection is *)
(* added before its handle_initial runs and is not removed when that fails.*)
(***************************************************************************)
C19_Step ==
    (~ctx.registered /\ last'.op = "handle" /\ ctx'.registered)
    => conn'.state = "Handshake"

C19_ValidInitial == [][C19_Step]_vars /\ [](ctx.registered => conn.state # "None")


(***************************************************************************)
(* C20.  A client connection in Handshake that receives a well-formed      *)
(* version-negotiation packet stays in Handshake without an event when the *)
(* packet lists the local VERSION, and otherwise queues a                  *)
(* ConnectionLost{VersionMismatch} event and moves to Draining.  The code  *)
(* breaks both halves: decrypt_packet has no key for a version-negotiation *)
(* header, and handle_packet answers its Err(None) with State::Established.*)
(***************************************************************************)
C20_Spurious ==
    conn'.h_vn = "supported"
    => conn'.state = "Handshake" /\ ctx'.events = ctx.events

C20_Mismatch ==
    conn'.h_vn = "unsupported"
    => /\ conn'.state = "Draining"
       /\ ctx'.events = Append(ctx.events, EventOf("ConnectionLost", "VersionMismatch"))

C20_Step ==
    (conn.side = "Client" /\ conn.state = "Handshake" /\ last'.op = "handle")
    => C20_Spurious /\ C20_Mismatch

C20_VersionNegotiation == [][C20_Step]_vars

\* What the code does instead: every version-negotiation packet that reaches
\* a handshaking client makes it Established, silently.
C20_Observed ==
    [][(conn.side = "Client" /\ conn.state = "Handshake" /\ last'.op = "handle"
        /\ conn'.h_vn # "-")
       => conn'.state = "Established" /\ ctx'.events = ctx.events]_vars


(***************************************************************************)
(* Retry packets during the handshake: one numbered below the client's     *)
(* ClientHello packet and one numbered like it, among the packets of the   *)
(* handshake.                                                              *)
(***************************************************************************)
Retry(number) == Packet("Retry", number, <<>>, "ongoing", 1)

RetryInputs ==
    { Retry(0), Retry(1), HandshakeDone,
      Packet("Initial", 0, <<RxStream(0, 0, 1, FALSE)>>, "ongoing", 1),
      Packet("Handshake", 0, <<RxStream(0, 0, 1, FALSE)>>, "ongoing", 1),
      PingInput }

HandleRetry == HandleIn(RetryInputs)

NextRetry == HandleRetry \/ Timeout \/ PollIo \/ Poll \/ Tick

SpecRetry == Init /\ [][NextRetry]_vars

(***************************************************************************)
(* C21.  A Retry packet that reaches a connection in Handshake: when the   *)
(* connection has sent no ClientHello the result is PROTOCOL_VIOLATION;    *)
(* when the packet's number is below the ClientHello's packet number the   *)
(* packet is ignored; otherwise the transport state is rebuilt, a new      *)
(* ClientHello is queued and the state stays Handshake.  The code breaks   *)
(* all three: decrypt_packet has no key for a Retry header, and            *)
(* handle_packet answers its Err(None) with State::Established.            *)
(***************************************************************************)
C21_NoHello ==
    conn.clienthello_packet = -1
    => conn'.h_err = "PROTOCOL_VIOLATION" /\ conn'.state = "HandshakeFailed"

C21_Outdated ==
    (conn.clienthello_packet # -1 /\ conn.clienthello_packet > conn'.h_retry)
    => conn'.state = "Handshake" /\ ctx'.io = ctx.io /\ ctx'.events = ctx.events

C21_Rebuild ==
    (conn.clienthello_packet # -1 /\ conn.clienthello_packet <= conn'.h_retry)
    => /\ conn'.state = "Handshake"
       /\ conn'.sent_packets = EmptyMap
       /\ conn'.handshake_pending.stream # <<>>

C21_Step ==
    (conn.state = "Handshake" /\ last'.op = "handle" /\ conn'.h_retry # -1)
    => C21_NoHello /\ C21_Outdated /\ C21_Rebuild

C21_Retry == [][C21_Step]_vars

\* What the code does instead: every Retry packet that reaches a connection
\* in Handshake makes it Established, silently.
C21_Observed ==
    [][(conn.state = "Handshake" /\ last'.op = "handle" /\ conn'.h_retry # -1)
       => conn'.state = "Established" /\ ctx'.events = ctx.events]_vars


(***************************************************************************)
(* Writing on a client under a roomy and under a tight congestion window:  *)
(* the application opens, writes, finishes and closes; the server grants   *)
(* credit, opens its own stream and acknowledges.                          *)
(***************************************************************************)
InitialWindows == {2 * 1460, 100}

WriteInputs ==
    { HandshakeDone,
      Packet("Short", 2, <<[ty |-> "MaxData", bytes |-> 6]>>, "ongoing", 0),
      Packet("Short", 2, <<[ty |-> "MaxStreamData", id |-> 4, offset |-> 5]>>, "ongoing", 0),
      Packet("Short", 2, <<RxStream(1, 0, 1, FALSE)>>, "ongoing", 0),
      Packet("Short", 2, <<AckFrame({2})>>, "ongoing", 0) }

InitWrite ==
    \E window \in InitialWindows :
        InitWith("Client", [BaseConfig EXCEPT !.initial_window = window])

HandleWrite == HandleIn(WriteInputs)

WriteAny == WriteIn({0, 1, 2, 5})

NextWrite ==
    \/ HandleWrite
    \/ PollIo
    \/ Poll
    \/ Open
    \/ WriteAny
    \/ Finish
    \/ Close

SpecWrite == InitWrite /\ [][NextWrite]_vars

(***************************************************************************)
(* C22.  write(stream, data) returns Blocked and queues nothing when the   *)
(* connection is closed, congestion-blocked or out of connection credit    *)
(* (data_sent >= max_data), and in the last two cases puts the stream in   *)
(* blocked_streams.  Otherwise, on a stream whose send half is Ready: when *)
(* the stream has no credit left it returns Blocked and changes nothing;   *)
(* else it queues n = min(max_data - data_sent, stream budget, length)     *)
(* bytes as one STREAM frame at the stream's offset, advances the offset   *)
(* and data_sent by n and returns n.                                       *)
(***************************************************************************)
\* The write queued nothing.
Unqueued ==
    /\ conn'.pending = conn.pending
    /\ conn'.streams = conn.streams
    /\ conn'.data_sent = conn.data_sent

\* The write queued n bytes of stream id as one frame.
Queued(id, n) ==
    /\ conn'.pending.stream =
            Append(conn.pending.stream,
                   StreamFrame(id, conn.streams[id].send.offset, n, FALSE))
    /\ conn'.streams[id].send.offset = conn.streams[id].send.offset + n
    /\ conn'.data_sent = conn.data_sent + n
    /\ conn'.blocked_streams = conn.blocked_streams
    /\ conn'.h_write.n = n
    /\ last'.outcome = "Ok"

\* The write was refused for the connection's sake.
C22_Refused(id) ==
    IF State_is_closed(conn.state)
    THEN Unqueued /\ last'.outcome = "Blocked" /\ conn'.blocked_streams = conn.blocked_streams
    ELSE /\ Unqueued
         /\ last'.outcome = "Blocked"
         /\ conn'.blocked_streams = conn.blocked_streams \cup {id}

StreamBudget(id) == conn.streams[id].send.max_data - conn.streams[id].send.offset

Budget(id, len) == Min(Min(conn.max_data - conn.data_sent, StreamBudget(id)), len)

C22_Case(id, len) ==
    IF State_is_closed(conn.state) \/ congestion_blocked(conn)
          \/ conn.data_sent >= conn.max_data
    THEN C22_Refused(id)
    ELSE conn.streams[id].send.state = "Ready"
         => IF StreamBudget(id) = 0
            THEN /\ Unqueued
                 /\ last'.outcome = "Blocked"
                 /\ conn'.blocked_streams = conn.blocked_streams
            ELSE Queued(id, Budget(id, len))

\* The claim as stated: whatever is not refused for the connection's sake
\* queues min(...) bytes.
C22_CaseAll(id, len) ==
    IF State_is_closed(conn.state) \/ congestion_blocked(conn)
          \/ conn.data_sent >= conn.max_data
    THEN C22_Refused(id)
    ELSE Queued(id, Budget(id, len))

C22_Write ==
    [][last'.op = "write" => C22_Case(conn'.h_write.stream, conn'.h_write.len)]_vars

C22_WriteAll ==
    [][last'.op = "write" => C22_CaseAll(conn'.h_write.stream, conn'.h_write.len)]_vars

\* A write was clipped by the connection's credit.
C22_Witness ==
    /\ last.op = "write" /\ last.outcome = "Ok"
    /\ conn.h_write.n > 0
    /\ conn.h_write.n < conn.h_write.len
    /\ conn.data_sent = conn.max_data

\* A write was refused because the congestion window is full.
C22_WitnessCongestion ==
    /\ last.op = "write" /\ last.outcome = "Blocked"
    /\ ~State_is_closed(conn.state)
    /\ conn.data_sent < conn.max_data
    /\ congestion_blocked(conn)
    /\ conn.h_write.stream \in conn.blocked_streams

\* A write was refused because the connection's credit is used up.
C22_WitnessCredit ==
    /\ last.op = "write" /\ last.outcome = "Blocked"
    /\ ~State_is_closed(conn.state)
    /\ conn.data_sent >= conn.max_data
    /\ conn.h_write.stream \in conn.blocked_streams

\* A write was refused because the connection is closed.
C22_WitnessClosed ==
    /\ last.op = "write" /\ last.outcome = "Blocked"
    /\ State_is_closed(conn.state)
    /\ conn.blocked_streams = {}

\* A write was refused because the stream's own credit is used up.
C22_WitnessStream ==
    /\ last.op = "write" /\ last.outcome = "Blocked"
    /\ ~State_is_closed(conn.state)
    /\ ~blocked(conn)
    /\ conn.streams[conn.h_write.stream].send.state = "Ready"
    /\ conn.h_write.stream \notin conn.blocked_streams


(***************************************************************************)
(* Opening streams on both sides: the peer grants one bidirectional stream *)
(* and no unidirectional one, or two of each, raises the limits with       *)
(* MAX_STREAM_ID, and sends data on streams that may not be open yet.      *)
(***************************************************************************)
GenerousParams ==
    [PeerParams EXCEPT !.initial_max_bidi_streams = 2, !.initial_max_uni_streams = 2]

OpenInputs ==
    { HandshakeDone,
      [HandshakeDone EXCEPT !.peer_params = GenerousParams],
      Packet("Initial", 0, <<RxStream(0, 0, 1, FALSE)>>, "ongoing", 1),
      Packet("Handshake", 1, <<RxStream(0, 1, 1, FALSE)>>, "complete", 1),
      Packet("Short", 2, <<[ty |-> "MaxStreamId", id |-> 8]>>, "ongoing", 0),
      Packet("Short", 2, <<[ty |-> "MaxStreamId", id |-> 2]>>, "ongoing", 0),
      Packet("Short", 2, <<RxStream(4, 0, 1, FALSE)>>, "ongoing", 0),
      Packet("Short", 2, <<RxStream(1, 0, 1, FALSE)>>, "ongoing", 0) }

HandleOpen == HandleIn(OpenInputs)

NextOpen ==
    \/ HandleOpen
    \/ PollIo
    \/ Poll
    \/ Open
    \/ Finish

SpecOpen == Init /\ [][NextOpen]_vars

(***************************************************************************)
(* C23.  open(dir) returns a stream id when the next index of that         *)
(* directionality is below the peer-granted maximum, and none otherwise.   *)
(* A returned id was never returned before, is not stream 0, was not in    *)
(* the stream table, has an index below the maximum, and the indices of a  *)
(* directionality are issued consecutively: from 1 for a client's          *)
(* bidirectional streams, from 0 otherwise.                                *)
(***************************************************************************)
\* The ids that the calls recorded in h returned for a directionality.
Returned(h, direction) ==
    {h[i].id : i \in {j \in 1..Len(h) : h[j].direction = direction /\ h[j].id # -1}}

FirstIndex(side, direction) == IF side = "Client" /\ direction = "Bi" THEN 1 ELSE 0

C23_Call(direction, id) ==
    LET next == IF direction = "Uni" THEN conn.next_uni ELSE conn.next_bi
        max == IF direction = "Uni" THEN conn.max_uni ELSE conn.max_bi
        before == Returned(conn.h_open, direction)
    IN  IF next < max
        THEN /\ id # -1
             /\ id # 0
             /\ id \notin Returned(conn.h_open, "Uni") \cup Returned(conn.h_open, "Bi")
             /\ id \notin DOMAIN conn.streams
             /\ id \in DOMAIN conn'.streams
             /\ ~conn'.panicked
             /\ initiator(id) = conn.side
             /\ directionality(id) = direction
             /\ index(id) < max
             /\ index(id) = FirstIndex(conn.side, direction) + Cardinality(before)
        ELSE /\ id = -1
             /\ conn'.streams = conn.streams

C23_Step ==
    last'.op = "open"
    => /\ Len(conn'.h_open) = Len(conn.h_open) + 1
       /\ C23_Call(conn'.h_open[Len(conn'.h_open)].direction,
                   conn'.h_open[Len(conn'.h_open)].id)

C23_Open == [][C23_Step]_vars

\* A client has opened its second bidirectional stream.
C23_Witness ==
    /\ last.op = "open" /\ last.outcome = "some"
    /\ conn.side = "Client"
    /\ Returned(conn.h_open, "Bi") = {4, 8}

\* A server has opened its first bidirectional stream.
C23_WitnessServer ==
    /\ last.op = "open" /\ last.outcome = "some"
    /\ conn.side = "Server"
    /\ Returned(conn.h_open, "Bi") = {1}

\* open returned none after it had returned a stream.
C23_WitnessNone ==
    /\ last.op = "open" /\ last.outcome = "none"
    /\ Returned(conn.h_open, "Uni") = {2, 6}


(***************************************************************************)
(* Credit on a client: the server's parameters grant a connection limit    *)
(* below or equal to a stream's limit, the application writes until it is  *)
(* refused, and the server sends MAX_DATA and MAX_STREAM_DATA frames with  *)
(* values below and above the current limits.                              *)
(***************************************************************************)
InitialMaxData == {2, 3, 96}

\* The peer's parameters with connection credit n; a stream's credit is 3,
\* or n when that is more.  With 96 bytes of credit one write fills a packet
\* large enough to close the smaller of the congestion windows.
CreditParams(n) ==
    [PeerParams EXCEPT !.initial_max_data = n,
                       !.initial_max_stream_data_bidi_local = Max(n, @),
                       !.initial_max_stream_data_bidi_remote = Max(n, @)]

CreditInputs ==
    { [HandshakeDone EXCEPT !.peer_params = CreditParams(n)] : n \in InitialMaxData }
    \cup {Packet("Short", 2, <<[ty |-> "MaxData", bytes |-> n]>>, "ongoing", 0) :
            n \in {1, 6, 128}}
    \cup {Packet("Short", 2, <<[ty |-> "MaxStreamData", id |-> 1, offset |-> n]>>,
                 "ongoing", 0) : n \in {1, 5}}
    \cup {Packet("Short", 2, <<AckFrame({2, 3})>>, "ongoing", 0)}

HandleCredit == HandleIn(CreditInputs)

WriteCredit == WriteIn({0, 1, 2, 5, 96})

NextCredit ==
    \/ HandleCredit
    \/ PollIo
    \/ Poll
    \/ WriteCredit

SpecCredit == InitWrite /\ [][NextCredit]_vars

(***************************************************************************)
(* C24.  MAX_DATA and MAX_STREAM_DATA never lower a limit the peer         *)
(* granted.  When a write on a stream returned Blocked because data_sent   *)
(* had reached max_data, a MAX_DATA frame that raises max_data above       *)
(* data_sent queues a StreamWritable event for that stream unless the      *)
(* connection is congestion-blocked, and a write on the stream is then     *)
(* accepted if the stream itself has credit left.                          *)
(***************************************************************************)
C24_NeverLowered ==
    /\ conn'.max_data >= conn.max_data
    /\ \A id \in DOMAIN conn.streams \cap DOMAIN conn'.streams :
            (has_send(conn, id) /\ has_send(conn', id))
            => conn'.streams[id].send.max_data >= conn.streams[id].send.max_data

\* A write on stream id was refused for the connection's sake (write puts
\* the stream in blocked_streams when it returns Blocked for that reason),
\* the connection's credit is used up, and this step handles a MAX_DATA frame
\* that raises the limit above data_sent (on an established connection
\* nothing else raises max_data).
CreditRaised(id) ==
    /\ id \in conn.blocked_streams
    /\ conn.data_sent >= conn.max_data
    /\ conn.state = "Established"
    /\ last'.op = "handle"
    /\ conn'.max_data > conn.data_sent

\* The credit stream id has left after this step.
StreamBudgetAfter(id) ==
    IF has_send(conn', id) /\ conn'.streams[id].send.state = "Ready"
    THEN conn'.streams[id].send.max_data - conn'.streams[id].send.offset
    ELSE 0

\* A StreamWritable event for stream id was queued by this step.
ToldWritable(id) ==
    \E i \in (Len(ctx.events) + 1)..Len(ctx'.events) :
        ctx'.events[i] = Event("StreamWritable", id)

\* A write of one byte on stream id in the state after this step is accepted.
WriteAccepted(id) == write([c |-> conn', x |-> ctx'], ctx'.config, id, 1).res = "Ok"

C24_Woken(id) ==
    (CreditRaised(id) /\ ~congestion_blocked(conn'))
    => /\ ToldWritable(id)
       /\ StreamBudgetAfter(id) > 0 => WriteAccepted(id)

\* The claim as stated: the event is queued and the write accepted whenever
\* the limit is raised above data_sent.
C24_WokenAlways(id) == CreditRaised(id) => ToldWritable(id) /\ WriteAccepted(id)

\* The claim with the stream's own credit taken into account, and nothing
\* said about congestion.
C24_WokenUncongested(id) ==
    CreditRaised(id)
    => /\ ToldWritable(id)
       /\ StreamBudgetAfter(id) > 0 => WriteAccepted(id)

C24_Credit == [][C24_NeverLowered /\ \A id \in StreamIds : C24_Woken(id)]_vars

\* Fails: while the congestion window is full, MAX_DATA queues no event.
C24_CreditUncongested ==
    [][C24_NeverLowered /\ \A id \in StreamIds : C24_WokenUncongested(id)]_vars

C24_CreditAlways == [][C24_NeverLowered /\ \A id \in StreamIds : C24_WokenAlways(id)]_vars

\* The StreamWritable event was queued and the stream can be written again.
C24_Witness ==
    /\ last.op = "handle"
    /\ conn.h_write.res = "Blocked"
    /\ conn.max_data = 6
    /\ conn.data_sent \in InitialMaxData
    /\ Event("StreamWritable", conn.h_write.stream) \in {ctx.events[i] : i \in DOMAIN ctx.events}
    /\ write([c |-> conn, x |-> ctx], ctx.config, conn.h_write.stream, 1).res = "Ok"

\* MAX_DATA raised the limit above data_sent while the congestion window was
\* full: the stream stays in blocked_streams and no event is queued.
C24_WitnessCongested ==
    /\ last.op = "handle" /\ last.outcome = "ok"
    /\ conn.state = "Established"
    /\ conn.h_write.res = "Blocked"
    /\ conn.h_write.stream \in conn.blocked_streams
    /\ conn.max_data = 128
    /\ conn.data_sent = 96
    /\ congestion_blocked(conn)
    /\ ctx.events = <<>>

\* The stream's credit was used up when MAX_DATA raised the connection's:
\* the event is queued, and a write on the stream is still refused.
C24_WitnessStream ==
    /\ last.op = "handle" /\ last.outcome = "ok"
    /\ conn.h_write.res = "Blocked"
    /\ conn.max_data = 6
    /\ conn.data_sent = 3
    /\ ~blocked(conn)
    /\ Event("StreamWritable", conn.h_write.stream) \in {ctx.events[i] : i \in DOMAIN ctx.events}
    /\ write([c |-> conn, x |-> ctx], ctx.config, conn.h_write.stream, 1).res = "Blocked"

\* A MAX_DATA frame below the current limit was handled and changed nothing.
C24_WitnessLow ==
    /\ last.op = "handle" /\ last.outcome = "ok"
    /\ conn.rx_packet = 2
    /\ conn.max_data \in InitialMaxData
    /\ conn.data_sent = conn.max_data
    /\ conn.h_write.res = "Blocked"
    /\ ctx.events = <<>>


(***************************************************************************)
(* Probing on a client whose configuration allows one tail loss probe or   *)
(* none: the server completes the handshake, asks for a PATH_RESPONSE and  *)
(* acknowledges; the loss-detection alarm fires again and again.           *)
(***************************************************************************)
MaxTlps == {0, 1}

ProbeInputs ==
    { HandshakeDone,
      Packet("Handshake", 1, <<AckFrame({2})>>, "ongoing", 0),
      Packet("Short", 2, <<[ty |-> "PathChallenge", token |-> 1]>>, "ongoing", 0),
      Packet("Short", 3, <<AckFrame({3})>>, "ongoing", 0),
      Packet("Short", 3, <<AckFrame({4})>>, "ongoing", 0) }

InitProbe ==
    \E n \in MaxTlps : InitWith("Client", [BaseConfig EXCEPT !.max_tlps = n])

HandleProbe == HandleIn(ProbeInputs)

NextProbe ==
    \/ HandleProbe
    \/ Timeout
    \/ PollIo
    \/ Poll
    \/ Ping
    \/ Tick

SpecProbe == InitProbe /\ [][NextProbe]_vars


\* No packet in flight belongs to the handshake.
NoHandshakeOutstanding == \A n \in DOMAIN conn.sent_packets : ~conn.sent_packets[n].handshake

\* The packets the call handed to the driver.
Transmitted == SelectSeq(ctx'.io, LAMBDA op : op.kind = "Transmit")

\* The call sent exactly n packets, each a 1-RTT packet holding one PING.
Probes(n) ==
    /\ ~conn'.panicked
    /\ conn'.largest_sent_packet = conn.largest_sent_packet + n
    /\ Len(Transmitted) = n
    /\ \A k \in 1..n :
        /\ Transmitted[k].ty = "Short"
        /\ Transmitted[k].number = conn.largest_sent_packet + k
        /\ conn.largest_sent_packet + k \in DOMAIN conn'.sent_packets
        /\ conn'.sent_packets[conn.largest_sent_packet + k] =
                SentPacket(now, SHORT_HEADER_LEN + 1 + AEAD_TAG_SIZE, FALSE, {},
                           Retransmits_default)

\* What an expiry of the loss-detection alarm does when it probes.
C25_Probing ==
    IF conn.tlp_count < ctx.config.max_tlps
    THEN /\ Probes(1)
         /\ conn'.tlp_count = conn.tlp_count + 1
         /\ conn'.rto_count = conn.rto_count
         /\ conn'.largest_sent_before_rto = conn.largest_sent_before_rto
    ELSE /\ Probes(2)
         /\ conn'.tlp_count = conn.tlp_count
         /\ conn'.rto_count = conn.rto_count + 1
         /\ conn'.largest_sent_before_rto =
                IF conn.rto_count = 0 THEN conn.largest_sent_packet
                ELSE conn.largest_sent_before_rto

C25_Expired == last'.op = "timeout" /\ last'.outcome = "LossDetection" /\ conn.loss_time = 0

\* The call acknowledged a packet that was in flight.
C25_Acked ==
    \E n \in conn'.h_acked : n \in DOMAIN conn.sent_packets /\ n \notin DOMAIN conn'.sent_packets

C25_Reset ==
    C25_Acked =>
        conn'.handshake_count = 0 /\ conn'.tlp_count = 0 /\ conn'.rto_count = 0

C25_Step == (C25_Expired /\ NoHandshakeOutstanding => C25_Probing) /\ C25_Reset

\* C25: when the loss-detection alarm expires with no handshake packet in
\* flight and loss_time = 0, the connection sends one PING-only 1-RTT packet
\* and increments tlp_count while tlp_count < max_tlps, and afterwards two
\* PING-only packets, incrementing rto_count and recording
\* largest_sent_before_rto at the first RTO only; acknowledging a packet in
\* flight resets handshake_count, tlp_count and rto_count to 0.
C25_Probes == [][C25_Step]_vars

\* A tail loss probe was followed by a retransmission timeout.
C25_Witness ==
    /\ last.op = "timeout"
    /\ last.outcome = "LossDetection"
    /\ conn.tlp_count = 1
    /\ conn.rto_count = 1
    /\ conn.largest_sent_before_rto = conn.largest_sent_packet - 2

\* The second of two retransmission timeouts in a row.
C25_WitnessAgain ==
    /\ last.op = "timeout"
    /\ conn.rto_count = 2
    /\ conn.largest_sent_before_rto = conn.largest_sent_packet - 4

\* An acknowledgement after a retransmission timeout.
C25_WitnessReset ==
    /\ last.op = "handle"
    /\ conn.h_acked # {}
    /\ conn.largest_sent_before_rto > 0
    /\ conn.rto_count = 0


(***************************************************************************)
(* Congestion control on an established client.  The exchange starts after *)
(* the handshake, with some PINGs already sent and none acknowledged.      *)
(***************************************************************************)
\* The driver's timers after it carried out io.
Driven(tm, r) ==
    IF r.some /\ r.io.kind = "TimerStart" THEN [tm EXCEPT ![r.io.timer] = r.io.time]
    ELSE IF r.some /\ r.io.kind = "TimerStop" THEN [tm EXCEPT ![r.io.timer] = -1]
    ELSE tm

\* The driver drains poll_io: [w, timers].
RECURSIVE Settle(_, _, _, _)
Settle(w, config, t, tm) ==
    IF w.x.io = <<>> /\ ~w.x.dirty THEN [w |-> w, timers |-> tm]
    ELSE \* one reference to poll_io's result
         LET r == poll_io(w, config, t)
         IN  Settle(r.w, config, t, Driven(tm, r))

\* The application drains poll.
RECURSIVE Polled(_)
Polled(w) ==
    IF w.x.events = <<>> /\ ~w.x.readable THEN w ELSE Polled(poll(w))

\* The next call into the endpoint starts from s: [w, timers].
Rested(s) == [w |-> [c |-> Fresh(s.w.c), x |-> Polled(s.w).x], timers |-> s.timers]

\* A client that connected at time 0 and received the server's flight.
EstablishedClient(config) ==
    LET s0 == Settle([c |-> connect(Connection_new("Client", config), HelloLen),
                      x |-> [Context_new EXCEPT !.registered = TRUE, !.dirty = TRUE,
                                                !.config = config]],
                     config, 0, [t \in Timers |-> -1])
        r == Endpoint_handle(Rested(s0).w, config, 0, HandshakeDone)
    IN  Rested(Settle(r.w, config, 0, s0.timers))

\* ... that has since called ping() n times, with a packet sent each time.
RECURSIVE Pinged(_, _)
Pinged(config, n) ==
    IF n = 0 THEN EstablishedClient(config)
    ELSE LET s == Pinged(config, n - 1)
         IN  Rested(Settle(ping(s.w), config, 0, s.timers))

PingsSent == {0, 2, 4}

InitAfter(config, pings) ==
    \E n \in pings :
        \E s \in {Pinged(config, n)} :
            /\ conn = s.w.c
            /\ ctx = s.w.x
            /\ timers = s.timers
            /\ now = 0
            /\ ticks = 0
            /\ calls = 0
            /\ last = [op |-> "new", outcome |-> ""]

InitRecover == InitAfter(BaseConfig, PingsSent)

RecoverInputs ==
    {PingInput} \cup {Packet("Short", 2, <<AckFrame(a)>>, "ongoing", 0) :
                        a \in {{4}, {5}, {6}, {4, 6}}}

HandleRecover == HandleIn(RecoverInputs)

NextRecover ==
    \/ HandleRecover
    \/ Timeout
    \/ PollIo
    \/ Poll
    \/ Ping
    \/ Tick

SpecRecover == InitRecover /\ [][NextRecover]_vars


\* The window a loss event leaves when it starts a recovery period.
Reduced(window) ==
    Max((window * ctx.config.loss_reduction_factor) \div 65536, ctx.config.minimum_window)

\* A loss event e of detect_lost_packets starts a recovery period.
Penalised(e) == e.nonack /\ SetMax(e.lost) > e.end_of_recovery

C26_Event(e) ==
    IF Penalised(e)
    THEN /\ e.after.end_of_recovery = e.largest_sent_packet
         /\ e.after.congestion_window = Reduced(e.before)
         /\ e.after.ssthresh = e.after.congestion_window
    ELSE /\ e.after.end_of_recovery = e.end_of_recovery
         /\ e.after.congestion_window = e.before
         /\ e.after.ssthresh = e.ssthresh

C26_Delivery(d) == d.packet <= d.end_of_recovery => d.after <= d.before

\* C26: a loss event shrinks the congestion window iff a packet that was not
\* ACK-only was declared lost and the largest lost number is above
\* end_of_recovery; it then sets end_of_recovery = largest_sent_packet,
\* congestion_window = max(congestion_window * loss_reduction_factor / 2^16,
\* minimum_window) and ssthresh = congestion_window.  Any other loss leaves
\* the three alone, and acknowledging a packet numbered <= end_of_recovery
\* does not grow the window.
C26_Window ==
    /\ \A i \in DOMAIN conn.h_loss : C26_Event(conn.h_loss[i])
    /\ \A i \in DOMAIN conn.h_delivered : C26_Delivery(conn.h_delivered[i])

\* A loss that started a recovery period and shrank the window.
C26_Witness ==
    \E i \in DOMAIN conn.h_loss :
        /\ Penalised(conn.h_loss[i])
        /\ conn.h_loss[i].after.congestion_window < conn.h_loss[i].before

\* A loss inside the recovery period.
C26_WitnessRecovering ==
    \E i \in DOMAIN conn.h_loss :
        /\ conn.h_loss[i].nonack
        /\ conn.h_loss[i].end_of_recovery > 0
        /\ SetMax(conn.h_loss[i].lost) <= conn.h_loss[i].end_of_recovery

\* A loss of ACK-only packets.
C26_WitnessAckOnly == \E i \in DOMAIN conn.h_loss : ~conn.h_loss[i].nonack

\* A loss after the recovery period.
C26_WitnessNext ==
    \E i \in DOMAIN conn.h_loss :
        /\ Penalised(conn.h_loss[i])
        /\ conn.h_loss[i].end_of_recovery > 0

\* An acknowledgement inside the recovery period.
C26_WitnessDelivery ==
    \E i \in DOMAIN conn.h_delivered :
        /\ conn.h_delivered[i].bytes > 0
        /\ conn.h_delivered[i].packet <= conn.h_delivered[i].end_of_recovery


\* An acknowledgement d that on_packet_acked took while an RTO was pending.
AfterRto(d) == d.rto_count > 0

SentBeforeRto(d) == d.packet <= d.largest_sent_before_rto

\* C27 as stated: after an RTO, acknowledging a packet sent before it sets
\* congestion_window to minimum_window.
C27_Spurious ==
    \A i \in DOMAIN conn.h_delivered :
        AfterRto(conn.h_delivered[i]) /\ SentBeforeRto(conn.h_delivered[i])
            => conn.h_delivered[i].after = ctx.config.minimum_window

\* C27: after an RTO has fired (rto_count > 0), acknowledging a packet sent
\* after it (number > largest_sent_before_rto) verifies the RTO and sets
\* congestion_window to minimum_window; acknowledging a packet sent before
\* it (number <= largest_sent_before_rto) marks the RTO spurious and does not
\* shrink the window.
C27_Verified ==
    \A i \in DOMAIN conn.h_delivered :
        AfterRto(conn.h_delivered[i]) =>
            IF SentBeforeRto(conn.h_delivered[i])
            THEN conn.h_delivered[i].after >= conn.h_delivered[i].before
            ELSE conn.h_delivered[i].after = ctx.config.minimum_window

\* A packet sent after the RTO is acknowledged and the window collapses.
C27_Witness ==
    \E i \in DOMAIN conn.h_delivered :
        /\ AfterRto(conn.h_delivered[i])
        /\ ~SentBeforeRto(conn.h_delivered[i])
        /\ conn.h_delivered[i].before > ctx.config.minimum_window
        /\ conn.congestion_window = ctx.config.minimum_window

\* A packet sent before the RTO is acknowledged and the window stays.
C27_WitnessSpurious ==
    \E i \in DOMAIN conn.h_delivered :
        /\ AfterRto(conn.h_delivered[i])
        /\ SentBeforeRto(conn.h_delivered[i])
        /\ conn.h_delivered[i].bytes > 0
        /\ conn.congestion_window > ctx.config.minimum_window


(***************************************************************************)
(* Time-based loss detection on an established client with one PING in     *)
(* flight.                                                                 *)
(***************************************************************************)
TimedConfig == [BaseConfig EXCEPT !.using_time_loss_detection = TRUE]

InitTimed == InitAfter(TimedConfig, {1})

TimedInputs ==
    {Packet("Short", 2, <<AckFrame(a)>>, "ongoing", 0) : a \in {{3}, {4}, {5}}}

HandleTimed == HandleIn(TimedInputs)

\* Time passes: one microsecond, or up to the loss-detection alarm.
TickAlarm ==
    /\ ticks < MaxTicks
    /\ Idle
    /\ \E t \in {now + 1} \cup {timers[k] : k \in {k \in {"LossDetection"} : timers[k] > now}} :
        now' = t
    /\ ticks' = ticks + 1
    /\ last' = [op |-> "tick", outcome |-> ""]
    /\ UNCHANGED <<conn, ctx, timers, calls>>

NextTimed ==
    \/ HandleTimed
    \/ Timeout
    \/ PollIo
    \/ Ping
    \/ TickAlarm

SpecTimed == InitTimed /\ [][NextTimed]_vars

\* The packets of loss event e that the reordering threshold did not condemn.
LostOnTime(e) == {p \in e.lost : e.largest_acked - p <= conn.reordering_threshold}

C28_Event(e) ==
    /\ e.delay_until_lost =
            e.rtt + (e.rtt * ctx.config.time_reordering_fraction) \div 65536
    /\ e.delay_until_lost >= e.rtt
    /\ \A p \in LostOnTime(e) : e.age[p] >= e.rtt

\* C28: in time-based loss detection delay_until_lost is
\* rtt + (rtt * time_reordering_fraction) / 2^16 with
\* rtt = max(latest_rtt, smoothed_rtt), so it is never below rtt and no
\* packet sent less than one rtt ago is declared lost on time alone.
C28_Delay ==
    ctx.config.using_time_loss_detection =>
        \A i \in DOMAIN conn.h_loss : C28_Event(conn.h_loss[i])

\* What detect_lost_packets computes: the sum is shifted as a whole.
C28_Observed ==
    ctx.config.using_time_loss_detection =>
        \A i \in DOMAIN conn.h_loss :
            conn.h_loss[i].delay_until_lost =
                (conn.h_loss[i].rtt
                    + conn.h_loss[i].rtt * ctx.config.time_reordering_fraction) \div 65536

\* A packet sent less than one rtt ago was declared lost on time alone,
\* when a packet the connection had sent was acknowledged.
C28_Premature ==
    \E i \in DOMAIN conn.h_loss :
        /\ conn.h_loss[i].largest_acked \in conn.h_acked
        /\ conn.h_loss[i].largest_acked <= conn.largest_sent_packet
        /\ \E p \in LostOnTime(conn.h_loss[i]) :
                conn.h_loss[i].age[p] < conn.h_loss[i].rtt


(***************************************************************************)
(* The loss-detection alarm on an established client: the peer's PING is   *)
(* answered with an ACK-only packet, PINGs are sent and acknowledged.      *)
(***************************************************************************)
AlarmInputs ==
    {PingInput} \cup {Packet("Short", 3, <<AckFrame(a)>>, "ongoing", 0) : a \in {{3}, {4}}}

HandleAlarm == HandleIn(AlarmInputs)

NextAlarm ==
    \/ HandleAlarm
    \/ Timeout
    \/ PollIo
    \/ Poll
    \/ Ping
    \/ Tick

InitAlarm ==
    \E checks \in BOOLEAN :
        InitAfter([BaseConfig EXCEPT !.overflow_checks = checks], {0})

\* set_loss_detection_alarm armed the alarm for loss_time.
ArmedForLoss ==
    /\ conn.h_intent = Intent("start", "set_loss_detection_alarm")
    /\ conn.set_loss_detection.kind = "start"
    /\ conn.bytes_in_flight > 0
    /\ ~conn.awaiting_handshake
    /\ conn.loss_time # 0

C29_Deadline == ArmedForLoss => conn.set_loss_detection.time = conn.loss_time

C29_Ordered ==
    conn.loss_time # 0 => conn.loss_time >= conn.time_of_last_sent_retransmittable_packet

\* C29: when set_loss_detection_alarm runs with bytes in flight, no
\* handshake outstanding and loss_time # 0, the deadline it sets is
\* loss_time, and loss_time - time_of_last_sent_retransmittable_packet never
\* underflows: loss_time # 0 implies
\* loss_time >= time_of_last_sent_retransmittable_packet in every state.
C29_Alarm == C29_Deadline /\ C29_Ordered /\ ~conn.panicked

\* A packet is sent after a loss_time that was left behind.
C29_Stale ==
    /\ conn.loss_time # 0
    /\ conn.loss_time < conn.time_of_last_sent_retransmittable_packet
    /\ conn.bytes_in_flight > 0

\* A build that checks overflow panics there.
C29_Panicked == ctx.config.overflow_checks /\ conn.panicked

SpecAlarm == InitAlarm /\ [][NextAlarm]_vars


(***************************************************************************)
(* Key updates on an established client: 1-RTT packets with either key     *)
(* phase bit, sealed under the keys of three epochs, in and out of order.  *)
(***************************************************************************)
Sealed(number, key_phase, epoch) ==
    [Packet("Short", number, <<Frame("Ping")>>, "ongoing", 0) EXCEPT
        !.key_phase = key_phase, !.epoch = epoch]

KeyInputs ==
    {Sealed(number, key_phase, epoch) :
        number \in {2, 3, 5}, key_phase \in BOOLEAN, epoch \in {0, 1, 2}}
    \cup {[Sealed(5, TRUE, 1) EXCEPT !.auth = FALSE]}

HandleKeys == HandleIn(KeyInputs)

NextKeys ==
    \/ HandleKeys
    \/ PollIo
    \/ Poll

InitKeys == InitAfter(BaseConfig, {0})

SpecKeys == InitKeys /\ [][NextKeys]_vars


\* decrypt_packet looked at a 1-RTT packet in the last call.
Looked == conn.h_decrypt.res # "none" /\ conn.h_decrypt.ty = "Short"

Accepted == conn.h_decrypt.res = "ok"

\* The keys are what they were before the call.
KeysKept ==
    /\ conn.key_phase = conn.h_decrypt.local_key_phase
    /\ conn.crypto_epoch = conn.h_decrypt.crypto
    /\ conn.prev_crypto_epoch = conn.h_decrypt.prev_crypto
    /\ conn.prev_crypto = conn.h_decrypt.boundary

\* The key phase bit differs from the local key phase.
Updating == Looked /\ conn.h_decrypt.key_phase # conn.h_decrypt.local_key_phase

C30_Update ==
    Updating =>
        /\ Accepted <=> /\ conn.h_decrypt.number > conn.h_decrypt.rx_packet
                        /\ conn.h_decrypt.auth
                        /\ conn.h_decrypt.sealed = conn.h_decrypt.crypto + 1
        /\ Accepted => /\ conn.crypto_epoch = conn.h_decrypt.crypto + 1
                       /\ conn.prev_crypto_epoch = conn.h_decrypt.crypto
                       /\ conn.prev_crypto = conn.h_decrypt.number
                       /\ conn.key_phase = ~conn.h_decrypt.local_key_phase
        /\ conn.h_decrypt.number <= conn.h_decrypt.rx_packet
                => last.outcome = "illegal" /\ conn.state = "Closed"

\* A packet with the local key phase, numbered below the boundary.
BelowBoundary ==
    /\ Looked
    /\ conn.h_decrypt.key_phase = conn.h_decrypt.local_key_phase
    /\ conn.h_decrypt.boundary # -1
    /\ conn.h_decrypt.number < conn.h_decrypt.boundary

C30_Retained ==
    BelowBoundary =>
        (Accepted <=> conn.h_decrypt.auth /\ conn.h_decrypt.sealed = conn.h_decrypt.prev_crypto)

\* C30: a 1-RTT packet whose key phase bit differs from the local key phase
\* is accepted iff its number is above the highest received number and it
\* authenticates under the key of the next epoch; the new key is then
\* current, the old key is retained with the packet's number for boundary
\* and the local key phase flips.  A number not above the highest received
\* one gives PROTOCOL_VIOLATION.  A later packet numbered below the boundary
\* is opened with the retained key.  No packet that fails changes the key
\* phase, the current key or the retained key.
C30_KeyUpdate ==
    /\ C30_Update
    /\ C30_Retained
    /\ Looked /\ ~(Updating /\ Accepted) => KeysKept

\* A key update was accepted.
C30_Witness == Updating /\ Accepted /\ conn.key_phase /\ conn.prev_crypto = 3

\* A packet below the boundary, sealed with the retained key, is accepted.
C30_WitnessRetained == BelowBoundary /\ Accepted /\ conn.h_decrypt.sealed = 0

\* A second key update.
C30_WitnessTwice == Updating /\ Accepted /\ conn.crypto_epoch = 2

\* A key update with a number that is not new.
C30_WitnessIllegal ==
    /\ Updating
    /\ last.outcome = "illegal"
    /\ conn.h_decrypt.sealed = conn.h_decrypt.crypto + 1

\* A key update that does not authenticate.
C30_WitnessFailed ==
    /\ Updating
    /\ last.outcome = "failed"
    /\ conn.h_decrypt.number > conn.h_decrypt.rx_packet

\* A packet of the old key phase, sealed with the retained key and numbered
\* below the boundary, arrives after the update.
C30_WitnessLate ==
    /\ Updating
    /\ conn.h_decrypt.boundary # -1
    /\ conn.h_decrypt.number < conn.h_decrypt.boundary
    /\ conn.h_decrypt.sealed = conn.h_decrypt.prev_crypto
    /\ last.outcome = "illegal"


(***************************************************************************)
(* Packets that carry nothing but acknowledgements.  The exchange starts   *)
(* from an established client that opened a stream and wrote one byte.     *)
(***************************************************************************)
\* An established client after open(Bi) and write of one byte, sent in
\* packet 3.
Streamed(config) ==
    LET s == EstablishedClient(config)
        o == open(s.w.c, config, "Bi")
        r == Endpoint_write([s.w EXCEPT !.c = o.c], config, o.id, 1)
    IN  Rested(Settle(r.w, config, 0, s.timers))

InitAckOnly ==
    \E s \in {Streamed(BaseConfig)} :
        /\ conn = s.w.c
        /\ ctx = s.w.x
        /\ timers = s.timers
        /\ now = 0
        /\ ticks = 0
        /\ calls = 0
        /\ last = [op |-> "new", outcome |-> ""]

\* 1-RTT packets: a PING, a PING with an acknowledgement, and packets
\* holding an ACK frame and nothing else.
AckOnlyInputs ==
    { PingInput,
      Packet("Short", 3, <<AckFrame({3}), Frame("Ping")>>, "ongoing", 0),
      Packet("Short", 2, <<AckFrame({4})>>, "ongoing", 0),
      Packet("Short", 3, <<AckFrame({3})>>, "ongoing", 0) }

HandleAckOnly == HandleIn(AckOnlyInputs)

NextAckOnly ==
    \/ HandleAckOnly
    \/ Reset
    \/ Timeout
    \/ PollIo
    \/ Poll
    \/ Tick

SpecAckOnly == InitAckOnly /\ [][NextAckOnly]_vars

\* The packet e of next_packet holds an ACK frame and nothing else.
AckOnly(e) ==
    /\ e.acks # {}
    /\ Retransmits_is_empty(e.sent)
    /\ ~e.path_response

\* The call took the frames of a packet that holds one that is not an ACK.
GotNonAck ==
    /\ last.op = "handle"
    /\ last.outcome = "ok"
    /\ conn.h_decrypt.res = "ok"
    /\ conn.h_decrypt.nonack

C31_Set == GotNonAck /\ conn.state = "Established" => conn.permit_ack_only

C31_Emitted ==
    \A i \in DOMAIN conn.h_built :
        AckOnly(conn.h_built[i]) => conn.h_built[i].permit_ack_only

C31_Cleared ==
    \A i \in DOMAIN conn.h_built :
        conn.h_built[i].permitted
            = (conn.h_built[i].permit_ack_only /\ conn.h_built[i].acks = {})


\* C31: next_packet emits a packet holding an ACK frame and nothing else
\* only if a frame other than ACK was received since the last packet that
\* carried an ACK: permit_ack_only is set by every received frame other
\* than ACK, is cleared exactly by a sent packet that carries an ACK, and
\* holds whenever next_packet builds a packet that carries only an ACK.
C31_AckOnly == C31_Emitted /\ C31_Cleared /\ C31_Set

\* next_packet built a packet with only an ACK in it, without permission,
\* from frames that were queued and not written.
C31_Stale ==
    \E i \in DOMAIN conn.h_built :
        /\ AckOnly(conn.h_built[i])
        /\ ~conn.h_built[i].permit_ack_only
        /\ conn.h_built[i].pending

\* next_packet answered a PING with a packet that carries only an ACK.
C31_Permitted ==
    \E i \in DOMAIN conn.h_built :
        /\ AckOnly(conn.h_built[i])
        /\ conn.h_built[i].permit_ack_only
        /\ ~conn.h_built[i].pending


(***************************************************************************)
(* STOP_SENDING.  The client has stream 4 with one byte written; stream 1  *)
(* is the peer's bidirectional stream with nothing written, stream 3 the   *)
(* peer's unidirectional stream, stream 8 is not open.                     *)
(***************************************************************************)
StopConfig == [BaseConfig EXCEPT !.max_remote_uni_streams = 1]

StopInputs ==
    {Packet("Short", 2, <<[ty |-> "StopSending", id |-> id, error_code |-> 7]>>,
            "ongoing", 0) : id \in {1, 3, 4, 8}}
        \cup {Packet("Short", 2, <<AckFrame(a)>>, "ongoing", 0) : a \in {{3}, {4}, {3, 4}}}

InitStop ==
    \E s \in {Streamed(StopConfig)} :
        /\ conn = s.w.c
        /\ ctx = s.w.x
        /\ timers = s.timers
        /\ now = 0
        /\ ticks = 0
        /\ calls = 0
        /\ last = [op |-> "new", outcome |-> ""]

HandleStop == HandleIn(StopInputs)

NextStop ==
    \/ HandleStop
    \/ Finish
    \/ Reset
    \/ PollIo
    \/ Poll

SpecStop == InitStop /\ [][NextStop]_vars

\* The send half the STOP_SENDING e names has produced at least one byte.
Produced(e) == e.send.state \notin {"Unknown", "Absent"} /\ e.send.offset > 0

\* e scheduled one RST_STREAM for its stream with its error code.
Scheduled(e) == e.after = Append(e.before, <<e.id, e.error_code>>)

C32_Frame(e) ==
    IF Produced(e) THEN e.ret = "" /\ Scheduled(e)
    ELSE e.ret = "PROTOCOL_VIOLATION" /\ e.after = e.before

\* C32 as stated: a STOP_SENDING for a stream whose send half has produced
\* at least one byte schedules a RST_STREAM with the supplied error code;
\* for a stream that is unknown, has no send half or has send offset 0 the
\* result is PROTOCOL_VIOLATION and nothing is scheduled.
C32_StopAlways == \A i \in DOMAIN conn.h_stop : C32_Frame(conn.h_stop[i])

C32_Open(e) ==
    IF ~Produced(e) THEN e.ret = "PROTOCOL_VIOLATION" /\ e.after = e.before
    ELSE IF e.send.state \in {"Ready", "DataSent"} THEN e.ret = "" /\ Scheduled(e)
    ELSE e.ret = "" /\ e.after = e.before

\* C32: a STOP_SENDING for a stream whose send half has produced at least
\* one byte and is Ready or DataSent schedules a RST_STREAM with the supplied
\* error code; for a send half that is DataRecvd, ResetSent or ResetRecvd it
\* schedules nothing; for a stream that is unknown, has no send half or has
\* send offset 0 the result is PROTOCOL_VIOLATION and nothing is scheduled.
C32_Stop == \A i \in DOMAIN conn.h_stop : C32_Open(conn.h_stop[i])

\* A STOP_SENDING that scheduled a RST_STREAM.
C32_Witness ==
    \E i \in DOMAIN conn.h_stop :
        /\ conn.h_stop[i].send.state = "Ready"
        /\ conn.h_stop[i].after = <<<<4, 7>>>>

\* ... for a stream that was finished.
C32_WitnessDataSent ==
    \E i \in DOMAIN conn.h_stop :
        conn.h_stop[i].send.state = "DataSent" /\ Scheduled(conn.h_stop[i])

\* A STOP_SENDING for a stream that was reset and one for a stream whose
\* data was all acknowledged.
C32_WitnessReset ==
    \E i \in DOMAIN conn.h_stop :
        conn.h_stop[i].send.state = "ResetSent" /\ conn.h_stop[i].ret = ""

C32_WitnessResetRecvd ==
    \E i \in DOMAIN conn.h_stop :
        conn.h_stop[i].send.state = "ResetRecvd" /\ conn.h_stop[i].ret = ""

C32_WitnessDataRecvd ==
    \E i \in DOMAIN conn.h_stop :
        conn.h_stop[i].send.state = "DataRecvd" /\ conn.h_stop[i].ret = ""

\* A STOP_SENDING for a stream with nothing written, without a send half,
\* and for no stream.
C32_WitnessUnwritten ==
    \E i \in DOMAIN conn.h_stop :
        /\ conn.h_stop[i].send.state = "Ready"
        /\ conn.h_stop[i].send.offset = 0
        /\ conn.h_stop[i].ret = "PROTOCOL_VIOLATION"
        /\ conn.h_err = "PROTOCOL_VIOLATION"

C32_WitnessAbsent ==
    \E i \in DOMAIN conn.h_stop : conn.h_stop[i].send.state = "Absent"

C32_WitnessUnknown ==
    \E i \in DOMAIN conn.h_stop : conn.h_stop[i].send.state = "Unknown"


(***************************************************************************)
(* Finishing a stream.  The client holds credit for several packets of     *)
(* data and has opened stream 4; the application writes and finishes       *)
(* without waiting for the driver to send what is queued.                  *)
(***************************************************************************)
WideParams ==
    [PeerParams EXCEPT !.initial_max_data = 4000,
                       !.initial_max_stream_data_bidi_local = 3000,
                       !.initial_max_stream_data_bidi_remote = 3000]

\* An established client that was granted WideParams and opened stream 4.
WideClient(config) ==
    LET s0 == Settle([c |-> connect(Connection_new("Client", config), HelloLen),
                      x |-> [Context_new EXCEPT !.registered = TRUE, !.dirty = TRUE,
                                                !.config = config]],
                     config, 0, [t \in Timers |-> -1])
        r == Endpoint_handle(Rested(s0).w, config, 0,
                             [HandshakeDone EXCEPT !.peer_params = WideParams])
        s1 == Rested(Settle(r.w, config, 0, s0.timers))
    IN  [s1 EXCEPT !.w.c = open(s1.w.c, config, "Bi").c]

InitFinish ==
    \E s \in {WideClient(BaseConfig)} :
        /\ conn = s.w.c
        /\ ctx = s.w.x
        /\ timers = s.timers
        /\ now = 0
        /\ ticks = 0
        /\ calls = 0
        /\ last = [op |-> "new", outcome |-> ""]

\* Lengths the application writes: nothing, one byte, more than a packet.
WriteLens == {0, 1, 1300}

\* Endpoint::write, whether or not the driver has sent what is queued
WriteQueued ==
    /\ ctx.registered
    /\ ~conn.panicked
    /\ \E stream \in StreamIds, len \in WriteLens :
        /\ has_send(conn, stream)
        /\ \E r \in {Endpoint_write(World, ctx.config, stream, len)} :
                Done([r.w EXCEPT !.c = Written(r.w.c, stream, len, r.res, r.n)], "write", r.res)
    /\ UNCHANGED <<timers, now, ticks>>

\* Endpoint::finish, whether or not the driver has sent what is queued
FinishQueued ==
    /\ ctx.registered
    /\ ~conn.panicked
    /\ \E stream \in StreamIds :
        /\ has_send(conn, stream)
        /\ conn.streams[stream].send.state = "Ready"
        /\ Done(Endpoint_finish(World, stream), "finish", "")
    /\ UNCHANGED <<timers, now, ticks>>

FinishInputs ==
    {Packet("Short", 2, <<AckFrame(a)>>, "ongoing", 0) : a \in {{3}, {4}}}

HandleFinish == HandleIn(FinishInputs)

NextFinish ==
    \/ WriteQueued
    \/ FinishQueued
    \/ HandleFinish
    \/ PollIo
    \/ Poll

SpecFinish == InitFinish /\ [][NextFinish]_vars

\* The frames of the sequence q that belong to stream id and carry fin.
RECURSIVE Fins(_, _)
Fins(q, id) ==
    IF q = <<>> THEN 0
    ELSE (IF Head(q).id = id /\ Head(q).fin THEN 1 ELSE 0) + Fins(Tail(q), id)

\* ... of the packets in the set ps of the sent-packet map sp.
RECURSIVE SentFins(_, _, _)
SentFins(sp, ps, id) ==
    IF ps = {} THEN 0
    ELSE LET p == SetMin(ps)
         IN  Fins(sp[p].retransmits.stream, id) + SentFins(sp, ps \ {p}, id)

\* The queued frames of stream id that end at offset.
EndingAt(q, id, offset) ==
    {i \in DOMAIN q : q[i].id = id /\ q[i].offset + q[i].len = offset}

\* finish(id) was called in this step.
Finishing(id) ==
    /\ last'.op = "finish"
    /\ id \in DOMAIN conn.streams
    /\ conn.streams[id].send.state = "Ready"
    /\ conn'.streams[id].send.state # "Ready"

C33_Finish ==
    \A id \in StreamIds :
        Finishing(id) =>
            /\ conn'.streams[id].send.state = "DataSent"
            /\ Fins(conn'.pending.stream, id)
                  + SentFins(conn'.sent_packets, DOMAIN conn'.sent_packets, id) = 1
            /\ \E i \in DOMAIN conn'.pending.stream :
                /\ conn'.pending.stream[i].id = id
                /\ conn'.pending.stream[i].fin
                /\ conn'.pending.stream[i].offset + conn'.pending.stream[i].len
                        = conn.streams[id].send.offset
                /\ IF EndingAt(conn.pending.stream, id, conn.streams[id].send.offset) # {}
                   THEN /\ i \in EndingAt(conn.pending.stream, id, conn.streams[id].send.offset)
                        /\ conn'.pending.stream = [conn.pending.stream EXCEPT ![i].fin = TRUE]
                   ELSE /\ conn'.pending.stream[i].len = 0
                        /\ conn'.pending.stream =
                              Append(conn.pending.stream, conn'.pending.stream[i])

\* The packet e took its STREAM frames whole from the head of the queue,
\* but for the last, which may be a first piece without fin whose rest,
\* with the fin of the frame, is back at the head of the queue.
Whole(e, n) ==
    /\ e.sent.stream[n] = e.queue[n]
    /\ e.rest = SubSeq(e.queue, n + 1, Len(e.queue))

Split(e, n) ==
    /\ e.sent.stream[n].id = e.queue[n].id
    /\ e.sent.stream[n].offset = e.queue[n].offset
    /\ e.sent.stream[n].len > 0
    /\ e.sent.stream[n].len < e.queue[n].len
    /\ ~e.sent.stream[n].fin
    /\ e.rest = <<[e.queue[n] EXCEPT !.offset = @ + e.sent.stream[n].len,
                                     !.len = @ - e.sent.stream[n].len]>>
                    \o SubSeq(e.queue, n + 1, Len(e.queue))

C33_Pieces(e) ==
    /\ Len(e.sent.stream) <= Len(e.queue)
    /\ \A i \in 1..(Len(e.sent.stream) - 1) : e.sent.stream[i] = e.queue[i]
    /\ IF e.sent.stream = <<>> THEN e.rest = e.queue
       ELSE Whole(e, Len(e.sent.stream)) \/ Split(e, Len(e.sent.stream))

C33_Split ==
    \A i \in DOMAIN conn'.h_built : C33_Pieces(conn'.h_built[i])

C33_Step == C33_Finish /\ C33_Split

\* C33: finish(id) on a stream whose send half is Ready leaves it DataSent
\* with exactly one STREAM frame of the stream carrying fin: the queued
\* frame that ends at the write offset if there is one, else a new empty
\* frame at that offset.  When next_packet splits a frame, fin is set only
\* on the piece that ends at the final offset, and the rest that is put
\* back starts where the sent piece ended.
C33_Fin == [][C33_Step]_vars

\* finish marked a frame that was queued.
C33_Witness ==
    /\ last.op = "finish"
    /\ \E i \in DOMAIN conn.pending.stream :
        /\ conn.pending.stream[i].fin
        /\ conn.pending.stream[i].len = 1300

\* finish queued an empty frame.
C33_WitnessEmpty ==
    /\ last.op = "finish"
    /\ \E i \in DOMAIN conn.pending.stream :
        /\ conn.pending.stream[i].fin
        /\ conn.pending.stream[i].len = 0
        /\ conn.pending.stream[i].offset = 1300

\* next_packet sent the first piece of a finished frame, without fin.
C33_WitnessSplit ==
    \E i \in DOMAIN conn.h_built :
        /\ Split(conn.h_built[i], Len(conn.h_built[i].sent.stream))
        /\ Head(conn.h_built[i].rest).fin

\* next_packet sent the last piece, with fin.
C33_WitnessLast ==
    \E i \in DOMAIN conn.h_built :
        /\ conn.h_built[i].sent.stream # <<>>
        /\ Head(conn.h_built[i].sent.stream).fin
        /\ Head(conn.h_built[i].sent.stream).offset > 1000
        /\ Head(conn.h_built[i].sent.stream).offset < 1300


(***************************************************************************)
(* C34.  At most one ConnectionLost event is ever queued for a connection, *)
(* whatever the order of received packets, frame errors, peer close        *)
(* frames, stateless resets, idle timer expiries and local close calls.    *)
(***************************************************************************)
C34_Once == ctx.h_connection_lost <= 1

\* A second ConnectionLost was queued by a stateless reset.
C34_AfterReset ==
    /\ ctx.h_connection_lost = 2
    /\ last.op = "handle"
    /\ last.outcome = "reset"

\* ... by a packet that arrived after the connection was closed.
C34_AfterClose ==
    /\ ctx.h_connection_lost = 2
    /\ last.op = "handle"
    /\ last.outcome # "reset"

\* ... by the idle timer.
C34_AfterIdle ==
    /\ ctx.h_connection_lost = 2
    /\ last.op = "timeout"


(***************************************************************************)
(* C35.  incoming_handshakes is the number of server-side connections in   *)
(* Handshake, so incoming.len() + incoming_handshakes never exceeds        *)
(* accept_buffer, a handshake that ends for any reason (completion,        *)
(* transport error, peer close, idle timeout, stateless reset) gives its   *)
(* slot back, and the counter never underflows.                            *)
(***************************************************************************)
\* The server-side connections in Handshake: the model holds one connection.
Handshaking ==
    IF ctx.registered /\ conn.side = "Server" /\ conn.state = "Handshake" THEN 1 ELSE 0

C35_Counted == ctx.incoming_handshakes = Handshaking

C35_Bounded == ctx.incoming + ctx.incoming_handshakes <= ctx.config.accept_buffer

C35_Slots == C35_Counted /\ C35_Bounded /\ ctx.incoming_handshakes >= 0

\* The idle timer ended a handshake and the slot is still taken.
C35_Leaked ==
    /\ conn.side = "Server"
    /\ conn.state = "Draining"
    /\ last.op = "timeout"
    /\ last.outcome = "Idle"
    /\ ctx.incoming_handshakes = 1
    /\ ctx.incoming = 0

\* A packet that failed authentication ended a handshake and the slot is
\* still taken.
C35_Unreleased ==
    /\ conn.side = "Server"
    /\ conn.state = "Established"
    /\ ctx.incoming_handshakes = 1
    /\ ctx.incoming = 0


(***************************************************************************)
(* Streams waiting for credit.  The client's congestion window leaves room *)
(* for one more packet after the handshake; the exchange starts after the  *)
(* application wrote one byte on stream 4, which fills the window.         *)
(***************************************************************************)
TightConfig == [BaseConfig EXCEPT !.initial_window = 100]

InitBlocked ==
    \E s \in {Streamed(TightConfig)} :
        /\ conn = s.w.c
        /\ ctx = s.w.x
        /\ timers = s.timers
        /\ now = 0
        /\ ticks = 0
        /\ calls = 0
        /\ last = [op |-> "new", outcome |-> ""]

BlockedInputs ==
    { PingInput,
      Packet("Short", 2, <<[ty |-> "MaxData", bytes |-> 6]>>, "ongoing", 0),
      Packet("Short", 2, <<AckFrame({3})>>, "ongoing", 0),
      Packet("Short", 2, <<AckFrame({2, 3})>>, "ongoing", 0) }

HandleBlocked == HandleIn(BlockedInputs)

WriteSome == WriteIn({1, 5})

NextBlocked ==
    \/ HandleBlocked
    \/ WriteSome
    \/ Timeout
    \/ PollIo
    \/ Poll
    \/ Tick

SpecBlocked == InitBlocked /\ [][NextBlocked]_vars

\* C36: no lost wakeup for streams blocked on write: at the end of every
\* operation, if blocked_streams is not empty the connection is still
\* blocked (data_sent >= max_data, or congestion-blocked); every operation
\* that unblocks the connection queues StreamWritable for the streams in
\* blocked_streams and empties the set.
C36_Woken == conn.blocked_streams # {} => blocked(conn)

\* A write was refused, and a packet without ACK or MAX_DATA then unblocked
\* the connection: the stream waits and nothing was queued for it.
C36_Asleep ==
    /\ last.op = "handle"
    /\ conn.blocked_streams = {4}
    /\ ~blocked(conn)
    /\ ctx.events = <<>>

\* ... the loss-detection alarm unblocked the connection.
C36_AsleepAlarm ==
    /\ last.op = "timeout"
    /\ last.outcome = "LossDetection"
    /\ conn.blocked_streams = {4}
    /\ ~blocked(conn)
    /\ ctx.events = <<>>


(***************************************************************************)
(* Finished streams.  The client wrote one byte on stream 4 (packet 3);    *)
(* the application finishes the stream, the peer acknowledges.             *)
(***************************************************************************)
FinInputs ==
    {Packet("Short", 2, <<AckFrame(a)>>, "ongoing", 0) : a \in {{3}, {4}, {3, 4}, {5}}}

HandleFin == HandleIn(FinInputs)

NextFin ==
    \/ HandleFin
    \/ Finish
    \/ Timeout
    \/ PollIo
    \/ Poll
    \/ Tick

SpecFin == InitAckOnly /\ [][NextFin]_vars

\* A STREAM frame of stream id with fin is queued or in a sent packet that
\* is neither acknowledged nor lost.
FinOutstanding(id) ==
    Fins(conn.pending.stream, id)
        + SentFins(conn.sent_packets, DOMAIN conn.sent_packets, id) > 0

\* StreamFinished is queued for a stream only when its fin is no longer
\* outstanding.
C37_Finished ==
    \A i \in DOMAIN ctx.events :
        ctx.events[i].kind = "StreamFinished" => ~FinOutstanding(ctx.events[i].stream)

\* next_packet drops no queued frame that carries fin: it sends it or
\* leaves it queued.
C37_Kept ==
    \A i \in DOMAIN conn.h_built :
        Fins(conn.h_built[i].queue, 4)
            = Fins(conn.h_built[i].sent.stream, 4) + Fins(conn.h_built[i].rest, 4)

\* C37: StreamFinished is reported for a stream only after the packet that
\* carries the stream's fin has been acknowledged: acknowledging all data
\* bytes while the frame with fin is unacknowledged or queued does not
\* finish the stream, and the frame with fin is never dropped from the
\* retransmit queue before it is acknowledged.
C37_FinAcked == C37_Finished /\ C37_Kept

\* The data was acknowledged, the empty frame with fin is in packet 4, not
\* acknowledged, and StreamFinished is queued.
C37_Early ==
    /\ last.op = "handle"
    /\ conn.h_acked = {3}
    /\ 4 \in DOMAIN conn.sent_packets
    /\ Fins(conn.sent_packets[4].retransmits.stream, 4) = 1
    /\ conn.streams[4].send.state = "DataRecvd"
    /\ ctx.events = <<Event("StreamFinished", 4)>>


(***************************************************************************)
(* Send-half states under reset, STOP_SENDING and acknowledgements.        *)
(***************************************************************************)
\* The state of the send half of stream id in c; "Gone" once the stream
\* was removed.
SendStateOf(c, id) ==
    IF id \in DOMAIN c.streams THEN c.streams[id].send.state ELSE "Gone"

\* A RST_STREAM for stream id is queued or in a sent packet that is neither
\* acknowledged nor lost.
ResetOutstanding(c, id) ==
    \/ \E i \in DOMAIN c.pending.rst_stream : c.pending.rst_stream[i][1] = id
    \/ \E p \in DOMAIN c.sent_packets :
          \E i \in DOMAIN c.sent_packets[p].retransmits.rst_stream :
              c.sent_packets[p].retransmits.rst_stream[i][1] = id

\* DataRecvd and ResetRecvd are final; ResetSent only moves to ResetRecvd.
C38_Step ==
    \A id \in DOMAIN conn.streams :
        LET s == SendStateOf(conn, id)
            t == SendStateOf(conn', id)
        IN  /\ s \in {"DataRecvd", "ResetRecvd"} => t \in {s, "Gone"}
            /\ s = "ResetSent" => t \in {"ResetSent", "ResetRecvd", "Gone"}

C38_Final == [][C38_Step]_vars

\* Every send half in ResetSent has a RST_STREAM queued or in flight.
C38_Pending ==
    \A id \in DOMAIN conn.streams :
        SendStateOf(conn, id) = "ResetSent" => ResetOutstanding(conn, id)

\* C38: a send half in DataRecvd or ResetRecvd never changes state again
\* and one in ResetSent only ever moves to ResetRecvd, under any sequence
\* of reset calls, STOP_SENDING frames and acknowledgements; every send
\* half in ResetSent has a RST_STREAM queued or in an unacknowledged sent
\* packet.
C38_Terminal == C38_Final /\ []C38_Pending

\* A STOP_SENDING found the send half in DataRecvd and left it in
\* ResetSent with no RST_STREAM anywhere.
C38_Reopened ==
    /\ conn.h_stop # <<>>
    /\ conn.h_stop[1].send.state = "DataRecvd"
    /\ conn.h_stop[1].state = "ResetSent"
    /\ ~ResetOutstanding(conn, conn.h_stop[1].id)

\* The same for a send half in ResetRecvd.
C38_ReopenedReset ==
    /\ conn.h_stop # <<>>
    /\ conn.h_stop[1].send.state = "ResetRecvd"
    /\ conn.h_stop[1].state = "ResetSent"
    /\ ~ResetOutstanding(conn, conn.h_stop[1].id)


(***************************************************************************)
(* The largest acknowledged packet number against the numbers sent.        *)
(***************************************************************************)
\* The distance next_packet hands to PacketNumber::new for packet e.
Distance(e) == e.number - conn.largest_acked_packet

\* C39: largest_acked_packet never exceeds largest_sent_packet: an ACK
\* frame for a packet number that was never sent does not raise it above
\* the highest number sent, so the distance from largest_acked_packet to
\* the number of the next outgoing packet is never negative.
C39_Acked ==
    /\ conn.largest_acked_packet <= conn.largest_sent_packet
    /\ \A i \in DOMAIN conn.h_built : Distance(conn.h_built[i]) >= 0

\* An ACK frame raised largest_acked_packet above every number sent.
C39_Ahead ==
    /\ last.op = "handle"
    /\ conn.h_acked = {}
    /\ conn.largest_acked_packet > conn.largest_sent_packet

\* A packet was built with a number below largest_acked_packet.
C39_Negative ==
    /\ last.op = "poll_io"
    /\ \E i \in DOMAIN conn.h_built : Distance(conn.h_built[i]) < 0


(***************************************************************************)
(* Closing a failed handshake.  Every handshake packet that carries more   *)
(* than an ACK is acknowledged in a packet with a new number; a PING in a  *)
(* handshake packet then breaks the handshake, and the CONNECTION_CLOSE    *)
(* takes the next number.  The build checks debug_assert! or not.          *)
(***************************************************************************)
MaxClose == 257

CloseInputs ==
    { Packet("Initial", 0, <<RxStream(0, 0, 1, FALSE)>>, "ongoing", 1),
      Packet("Handshake", 0, <<RxStream(0, 0, 1, FALSE)>>, "ongoing", 0),
      Packet("Handshake", 1, <<Frame("Ping")>>, "ongoing", 0) }

InitClose ==
    \E side \in Sides, debug \in BOOLEAN :
        /\ conn = IF side = "Client"
                  THEN connect(Connection_new("Client", BaseConfig), HelloLen)
                  ELSE Connection_new("Server", BaseConfig)
        /\ ctx = [Context_new EXCEPT !.registered = side = "Client",
                                     !.dirty = side = "Client",
                                     !.debug_assertions = debug]
        /\ timers = [t \in Timers |-> -1]
        /\ now = 0
        /\ ticks = 0
        /\ calls = 0
        /\ last = [op |-> "new", outcome |-> ""]

\* A call ends; packet numbers run up to MaxClose.
DoneClose(w, op, outcome) ==
    /\ w.c.largest_sent_packet <= MaxClose
    /\ Len(w.x.io) <= MaxIo
    /\ Len(w.x.events) <= MaxEvents
    /\ conn' = [w.c EXCEPT !.hash_order = <<>>]
    /\ ctx' = w.x
    /\ last' = [op |-> op, outcome |-> outcome]
    /\ calls' = calls

HandleClose ==
    /\ ~conn.panicked
    /\ Idle
    /\ ctx.registered \/ (conn.side = "Server" /\ conn.state = "None")
    /\ \E packet \in CloseInputs :
        \E r \in {Endpoint_handle(World, ctx.config, now,
                                  IF conn.side = "Server"
                                  THEN [packet EXCEPT !.peer_params = ClientParams]
                                  ELSE packet)} :
            DoneClose(r.w, "handle", r.outcome)
    /\ UNCHANGED <<timers, now, ticks>>

PollIoClose ==
    /\ ~conn.panicked
    /\ ctx.io # <<>> \/ ctx.dirty
    /\ \E order \in Orders(conn.pending.max_stream_data
                              \cup conn.handshake_pending.max_stream_data) :
       \E r \in {poll_io([World EXCEPT !.c.hash_order = order], ctx.config, now)} :
           /\ DoneClose(r.w, "poll_io", IF r.some THEN r.io.kind ELSE "none")
           /\ timers' = IF r.some /\ r.io.kind = "TimerStart"
                        THEN [timers EXCEPT ![r.io.timer] = r.io.time]
                        ELSE IF r.some /\ r.io.kind = "TimerStop"
                        THEN [timers EXCEPT ![r.io.timer] = -1]
                        ELSE timers
    /\ UNCHANGED <<now, ticks>>

PollClose ==
    /\ ~conn.panicked
    /\ Quiet
    /\ ctx.events # <<>> \/ ctx.readable
    /\ DoneClose(poll(World), "poll", "")
    /\ UNCHANGED <<timers, now, ticks>>

NextClose ==
    \/ HandleClose
    \/ PollIoClose
    \/ PollClose

SpecClose == InitClose /\ [][NextClose]_vars

\* The CONNECTION_CLOSE packets handed to the network in this call while
\* the connection is in HandshakeFailed.
Closes == {i \in DOMAIN ctx.io : ctx.io[i].kind = "Transmit" /\ ctx.io[i].ty = "Handshake"}

\* The packet number the last close packet was given.
CloseNumber == conn.largest_sent_packet

\* C40: every CONNECTION_CLOSE sent while the connection is in
\* HandshakeFailed uses a packet number below 64, so that the assertion in
\* handle_packet holds, and the one-byte packet number of handshake_close
\* is that number, for any number of packets sent during the handshake and
\* received in HandshakeFailed.
C40_CloseNumber ==
    last.op = "handle" /\ conn.state = "HandshakeFailed"
    => /\ ~conn.panicked
       /\ CloseNumber < 64
       /\ \A i \in Closes : ctx.io[i].number = CloseNumber

\* The assertion failed: a build with debug assertions panicked.
C40_Asserted ==
    /\ ctx.debug_assertions
    /\ conn.panicked
    /\ CloseNumber = 64

\* A build without them sent a close packet numbered 64 ...
C40_Beyond ==
    /\ ~ctx.debug_assertions
    /\ last.op = "handle" /\ conn.state = "HandshakeFailed"
    /\ CloseNumber = 64
    /\ \E i \in Closes : ctx.io[i].number = 64

\* ... and later one numbered 256, whose one-byte packet number is 0.
C40_Truncated ==
    /\ ~ctx.debug_assertions
    /\ last.op = "handle" /\ conn.state = "HandshakeFailed"
    /\ CloseNumber = 256
    /\ \E i \in Closes : ctx.io[i].number = 0

====
